---- MODULE Spec2Model ----
(***************************************************************************)
(* MoodDJ: the mood inference hook (Frontend/src/hooks/useEmotion.ts, and  *)
(* its softmax variant) as a state machine.                                *)
(*                                                                         *)
(* Numbers.  The source computes in IEEE doubles.  The model computes in   *)
(* fixed point: a real v is the integer round(v * ONE), every division     *)
(* rounds to the nearest unit (RDiv), and exp / sigmoid are evaluated from *)
(* tables with linear interpolation.  A sum of rounded quotients is        *)
(* therefore 1 only up to a few units, exactly as the floating-point sum   *)
(* is 1 only up to a few ulps.                                             *)
(***************************************************************************)
EXTENDS Integers, Sequences, FiniteSets, TLC

\* the fixed-point unit: 1.0
ONE == 10 * 1000

NULL == "null"

\* an optional value (null | v) is <<>> or <<v>>
None == <<>>
Some(v) == <<v>>

Abs(v) == IF v < 0 THEN -v ELSE v
Min(a, b) == IF a < b THEN a ELSE b
Max(a, b) == IF a > b THEN a ELSE b

\* a / b rounded to the nearest unit, b > 0, symmetric about 0
RDiv(a, b) == IF a >= 0 THEN (2 * a + b) \div (2 * b)
                        ELSE -((2 * (-a) + b) \div (2 * b))

\* largest magnitude the model keeps for a product; every table below is
\* saturated long before it
BIG == 10000 * ONE

\* a * k for a double a and a positive literal k (saturating at +-BIG)
Times(a, k) == IF a > BIG \div k THEN BIG
               ELSE IF a < -(BIG \div k) THEN -BIG
               ELSE a * k

\* the values a division of doubles by zero gives, beyond every finite value
\* of the model
Infinity == 10 * BIG
NaN == Infinity + 1

Finite(v) == -Infinity < v /\ v < Infinity

\* a / b
Quot(a, b) == IF b # 0 THEN RDiv(a, b)
              ELSE IF a > 0 THEN Infinity
              ELSE IF a < 0 THEN -Infinity
              ELSE NaN

\* the operand taken as it is, without the substitute for zero
OrOne_Same(x) == x

\* x || 1
OrOne(x) == IF x = 0 THEN ONE ELSE x

RECURSIVE SqrtBetween(_, _, _)
SqrtBetween(n, lo, hi) ==
    IF lo >= hi THEN lo
    ELSE LET mid == (lo + hi + 1) \div 2
         IN  IF mid * mid <= n THEN SqrtBetween(n, mid, hi)
                               ELSE SqrtBetween(n, lo, mid - 1)

\* Math.sqrt on non-negative integers below 2^30 (floor)
Sqrt(n) == SqrtBetween(n, 0, 32767)

(***************************************************************************)
(* Math.exp: table at multiples of 0.5 on [-8, 0] and of 0.25 on [0, 1],   *)
(* linear in between, flat outside.                                        *)
(***************************************************************************)
ExpNegTable == <<10000, 6065, 3679, 2231, 1353, 821, 498, 302, 183,
                 111, 67, 41, 25, 15, 9, 6, 3>>
ExpPosTable == <<10000, 12840, 16487, 21170, 27183>>

Interp(tab, x, step) ==
    LET k == x \div step
        r == x - k * step
    IN  IF k + 1 >= Len(tab) THEN tab[Len(tab)]
        ELSE tab[k + 1] + RDiv((tab[k + 2] - tab[k + 1]) * r, step)

exp(x) == IF x >= 0 THEN Interp(ExpPosTable, x, ONE \div 4)
                    ELSE Interp(ExpNegTable, -x, ONE \div 2)

\* useEmotion.ts:73  1 / (1 + Math.exp(-x)), table at multiples of 0.5
SigmoidTable == <<5000, 6225, 7311, 8176, 8808, 9241, 9526, 9707, 9820,
                  9890, 9933, 9959, 9975, 9985, 9991, 9994, 9997>>

sigmoid(x) == IF x >= 0 THEN Interp(SigmoidTable, x, ONE \div 2)
                        ELSE ONE - Interp(SigmoidTable, -x, ONE \div 2)

clamp01(v) == Max(0, Min(ONE, v))

(***************************************************************************)
(* Landmarks.  A landmark array is [len, pt]: pt gives the point at each   *)
(* of the twelve indices the hook reads, and an index at or beyond len is  *)
(* absent (pts[i] is undefined).  Coordinates are frame-normalised.        *)
(***************************************************************************)
IDX == [mouthL |-> 61, mouthR |-> 291, lipUp |-> 13, lipLo |-> 14,
        lEyeUp |-> 159, lEyeLo |-> 145, rEyeUp |-> 386, rEyeLo |-> 374,
        lEyeOuter |-> 33, lEyeInner |-> 133, rEyeOuter |-> 263, rEyeInner |-> 362]

IdxSet == {13, 14, 33, 61, 133, 145, 159, 263, 291, 362, 374, 386}

Pt(x, y) == [x |-> x, y |-> y]

d(a, b) == LET dx == a.x - b.x
               dy == a.y - b.y
           IN  Sqrt(dx * dx + dy * dy)

avg2(a, b) == Pt(RDiv(a.x + b.x, 2), RDiv(a.y + b.y, 2))

Landmarks(len, mouthY, lipGap, lidGap) ==
    [len |-> len,
     pt  |-> [i \in IdxSet |->
                CASE i = 61  -> Pt(4520, mouthY)
                  [] i = 291 -> Pt(5480, mouthY)
                  [] i = 13  -> Pt(5000, 6000 - lipGap)
                  [] i = 14  -> Pt(5000, 6000 + lipGap)
                  [] i = 159 -> Pt(4000, 4000 - lidGap)
                  [] i = 145 -> Pt(4000, 4000 + lidGap)
                  [] i = 386 -> Pt(6000, 4000 - lidGap)
                  [] i = 374 -> Pt(6000, 4000 + lidGap)
                  [] i = 33  -> Pt(3500, 4000)
                  [] i = 133 -> Pt(4500, 4000)
                  [] i = 362 -> Pt(5500, 4000)
                  [] i = 263 -> Pt(6500, 4000)]]

FullLen == 468

FaceNeutral == Landmarks(FullLen, 6000, 25, 55)
FaceSmile   == Landmarks(FullLen, 5900, 40, 55)
FaceSad     == Landmarks(FullLen, 6080, 10, 45)

\* pts[i]
HasIndex(pts, i) == i < pts.len
p(pts, i) == pts.pt[i]

WellFormed(pts) == \A i \in IdxSet : HasIndex(pts, i)

\* useEmotion.ts:106  reading .x of an absent point throws a TypeError
extractMetrics(pts) ==
    IF ~WellFormed(pts) THEN "TypeError"
    ELSE
    LET leftEyeCtr  == avg2(p(pts, IDX.lEyeOuter), p(pts, IDX.lEyeInner))
        rightEyeCtr == avg2(p(pts, IDX.rEyeOuter), p(pts, IDX.rEyeInner))
        eyeDist     == OrOne(d(leftEyeCtr, rightEyeCtr))
        mouthL      == p(pts, IDX.mouthL)
        mouthR      == p(pts, IDX.mouthR)
        lipUp       == p(pts, IDX.lipUp)
        lipLo       == p(pts, IDX.lipLo)
        mouthCenter == avg2(lipUp, lipLo)
        cornerY     == RDiv(mouthL.y + mouthR.y, 2)
    IN  [mouthWidth |-> Quot(d(mouthL, mouthR) * ONE, eyeDist),
         mouthOpen  |-> Quot(d(lipUp, lipLo) * ONE, eyeDist),
         eyeOpen    |-> Quot((d(p(pts, IDX.lEyeUp), p(pts, IDX.lEyeLo))
                              + d(p(pts, IDX.rEyeUp), p(pts, IDX.rEyeLo))) * ONE,
                             2 * eyeDist),
         smileUp    |-> Quot((mouthCenter.y - cornerY) * ONE, eyeDist),
         scale      |-> eyeDist]

(***************************************************************************)
(* Calibration and scoring.                                                *)
(***************************************************************************)
defaultCalib == [base |-> None, swapNS |-> FALSE]

DefaultBase == [eyeGap |-> 550, mouthOpen |-> 250, smileUp |-> 0, mouthWidth |-> 4800]

Scores(h, n, s) == [happy |-> h, neutral |-> n, sad |-> s]

\* the raw evidences with the swap flag ignored
RawEvidence_NoSwap(metrics, calib) ==
    LET base   == IF calib.base = None THEN DefaultBase ELSE calib.base[1]
        dSmile == metrics.smileUp - base.smileUp
        dOpen  == metrics.mouthOpen - base.mouthOpen
        happyRaw == RDiv(75 * sigmoid(Times(dSmile, 60))
                         + 25 * sigmoid(Times(dOpen, 60)), 100)
        sadRaw   == RDiv(70 * sigmoid(Times(-dSmile, 60))
                         + 20 * sigmoid(Times(base.mouthOpen - metrics.mouthOpen, 60))
                         + 10 * sigmoid(Times(base.eyeGap - metrics.eyeOpen, 80)), 100)
        neutralRaw == clamp01(ONE
                         - RDiv(60 * Min(ONE, Times(Abs(dSmile), 120)), 100)
                         - RDiv(40 * Min(ONE, Times(Abs(dOpen), 120)), 100))
    IN  Scores(happyRaw, neutralRaw, sadRaw)

\* the three raw evidences of the ratio variant, after the optional swap
RawEvidence(metrics, calib) ==
    LET base   == IF calib.base = None THEN DefaultBase ELSE calib.base[1]
        dSmile == metrics.smileUp - base.smileUp
        dOpen  == metrics.mouthOpen - base.mouthOpen
        happyRaw == RDiv(75 * sigmoid(Times(dSmile, 60))
                         + 25 * sigmoid(Times(dOpen, 60)), 100)
        sadRaw   == RDiv(70 * sigmoid(Times(-dSmile, 60))
                         + 20 * sigmoid(Times(base.mouthOpen - metrics.mouthOpen, 60))
                         + 10 * sigmoid(Times(base.eyeGap - metrics.eyeOpen, 80)), 100)
        neutralRaw == clamp01(ONE
                         - RDiv(60 * Min(ONE, Times(Abs(dSmile), 120)), 100)
                         - RDiv(40 * Min(ONE, Times(Abs(dOpen), 120)), 100))
    IN  IF calib.swapNS THEN Scores(happyRaw, sadRaw, neutralRaw)
                        ELSE Scores(happyRaw, neutralRaw, sadRaw)

\* toScores with the sum taken before the sad evidence is added
toScores_ShortSum(metrics, calib) ==
    LET e   == RawEvidence(metrics, calib)
        s0  == e.happy + e.neutral
        sum == IF s0 = 0 THEN ONE ELSE s0
    IN  Scores(clamp01(RDiv(e.happy * ONE, sum)),
               clamp01(RDiv(e.neutral * ONE, sum)),
               clamp01(RDiv(e.sad * ONE, sum)))

\* useEmotion.ts:132
toScores(metrics, calib) ==
    LET e   == RawEvidence(metrics, calib)
        s0  == e.happy + e.neutral + e.sad
        sum == IF s0 = 0 THEN ONE ELSE s0
    IN  Scores(clamp01(RDiv(e.happy * ONE, sum)),
               clamp01(RDiv(e.neutral * ONE, sum)),
               clamp01(RDiv(e.sad * ONE, sum)))


(***************************************************************************)
(* Softmax variant of the scorer (the second copy of the hook).            *)
(***************************************************************************)
\* the softmax at temperature zero: the greatest logit takes everything
softmax3_Hard(a, b, c, T) ==
    IF a >= b /\ a >= c THEN [a |-> ONE, b |-> 0, c |-> 0]
    ELSE IF b >= c THEN [a |-> 0, b |-> ONE, c |-> 0]
    ELSE [a |-> 0, b |-> 0, c |-> ONE]

\* softmax3(a, b, c, T): T in units of ONE
softmax3(a, b, c, T) ==
    LET ea == exp(RDiv(a * ONE, T))
        eb == exp(RDiv(b * ONE, T))
        ec == exp(RDiv(c * ONE, T))
        s0 == ea + eb + ec
        s  == IF s0 = 0 THEN ONE ELSE s0
    IN  [a |-> RDiv(ea * ONE, s), b |-> RDiv(eb * ONE, s), c |-> RDiv(ec * ONE, s)]

TH_SMILE == 180
TH_OPEN == 180
S1 == 28
S2 == 18
minNeutral == 1000

\* z = delta / TH in hundredths, saturated at +-10 (exp(-0.3 * 100) is 0 here)
ZScore(delta, th) == RDiv(Max(-10 * th, Min(10 * th, delta)) * 100, th)

toScoresSoftmax(metrics, calib) ==
    LET base   == IF calib.base = None THEN DefaultBase ELSE calib.base[1]
        dSmile == metrics.smileUp - base.smileUp
        dOpen  == metrics.mouthOpen - base.mouthOpen
        dEye   == metrics.eyeOpen - base.eyeGap
        inNeutralBand == Abs(dSmile) < TH_SMILE /\ Abs(dOpen) < TH_OPEN
        zSmile == ZScore(dSmile, TH_SMILE)
        zOpen  == ZScore(dOpen, TH_OPEN)
        \* exp(-0.5 * (zSmile^2 * 0.6 + zOpen^2 * 0.6))
        gauss  == exp(-RDiv(3 * (zSmile * zSmile + zOpen * zOpen), 10))
        neutralRaw == IF inNeutralBand THEN RDiv(gauss * 14, 10) ELSE gauss
        happyRaw == RDiv(75 * sigmoid(Times(dSmile, S1))
                         + 25 * sigmoid(Times(dOpen, S2))
                         + 5 * sigmoid(Times(-dEye, 60)), 100)
        sadRaw   == RDiv(70 * sigmoid(Times(-dSmile, S1))
                         + 20 * sigmoid(Times(Max(-BIG, Min(BIG, -dOpen)) + 30, S2))
                         + 10 * sigmoid(Times(Max(-BIG, Min(BIG, -dEye)) + 20, 90)), 100)
        h == happyRaw
        n == IF calib.swapNS THEN sadRaw ELSE neutralRaw
        s == IF calib.swapNS THEN neutralRaw ELSE sadRaw
        sm == softmax3(h, n, s, 19000)
        adjN == Max(sm.b, minNeutral)
        r0 == sm.a + adjN + sm.c
        renorm == IF r0 = 0 THEN ONE ELSE r0
    IN  Scores(RDiv(sm.a * ONE, renorm), RDiv(adjN * ONE, renorm), RDiv(sm.c * ONE, renorm))

(***************************************************************************)
(* Smoothing and label (the body of the onResults callback).               *)
(***************************************************************************)
\* a smoothing factor of 0.01
ALPHA_Tiny == 10 * 10

ALPHA == 2000

\* a default vector with happy in the lead
DefaultScores_HappyLead == Scores(3400, 3300, 3300)

DefaultScores == Scores(3300, 3400, 3300)

\* no smoothing: the raw vector replaces the smoothed one
Ema_Snap(prev, raw) == raw

\* the EMA step with the difference taken the wrong way round
Ema_Away(prev, raw) ==
    Scores(prev.happy + RDiv(ALPHA * (prev.happy - raw.happy), ONE),
           prev.neutral + RDiv(ALPHA * (prev.neutral - raw.neutral), ONE),
           prev.sad + RDiv(ALPHA * (prev.sad - raw.sad), ONE))

\* prev + ALPHA * (raw - prev), componentwise
Ema(prev, raw) ==
    Scores(prev.happy + RDiv(ALPHA * (raw.happy - prev.happy), ONE),
           prev.neutral + RDiv(ALPHA * (raw.neutral - prev.neutral), ONE),
           prev.sad + RDiv(ALPHA * (raw.sad - prev.sad), ONE))

\* the label with strict comparisons
Label_Strict(sm) ==
    IF sm.happy > sm.neutral /\ sm.happy > sm.sad THEN "happy"
    ELSE IF sm.sad > sm.neutral THEN "sad" ELSE "neutral"

\* the winning label
Label(sm) ==
    IF sm.happy >= sm.neutral /\ sm.happy >= sm.sad THEN "happy"
    ELSE IF sm.sad >= sm.neutral THEN "sad" ELSE "neutral"


(***************************************************************************)
(* The hook as a state machine.                                            *)
(*                                                                         *)
(* React state (mood, scores, running, ...) is the committed value; a      *)
(* render and its effects run in the step of the handler that set the      *)
(* state.  start, kickOff and loop are closures of one render: they read   *)
(* the `running` of that render, so kickOff and loop take it as `run`.     *)
(* Refs (mpRef, rafRef, emaRef, ...) are read live.                        *)
(***************************************************************************)
VARIABLES
    initPc,         \* detector init effect: "loading", "done", "failed"
    mpRef,          \* mpRef.current: NULL or "fm"
    lastPts,        \* fm._lastPts: None or Some(landmark array)
    mood, scores, running, tracking, lastError, ready, faceCount,
    rafRef,         \* rafRef.current: a request id, 0 for null
    missFramesRef, calibRef, emaRef,
    videoEl,        \* a video element is bound
    readyState,     \* of the video element: 0 nothing, 1 metadata, 2 current data, 3 future data
    dims,           \* videoEl.videoWidth and videoEl.videoHeight are both non-zero
    listeners,      \* the running effect's loadedmetadata / canplay listeners are attached
    rafQueue,       \* pending animation-frame callbacks, [id, fn]
    inflight,       \* send() calls that have not settled
    \* history of the run
    faceFrames,     \* face results scored so far
    seenLo, seenHi, \* componentwise min / max of the default and every raw vector
    noFaceRun,      \* results without a face since the last scored face
    faceRun,        \* consecutive results with a scored face
    stopRequested,  \* stop() was called and start() has not been called since
    calls,          \* the last two calls of the hook's API since it was mounted,
                    \* latest last, each with the calibration before and after it
    session,        \* what the detector may deliver in this run, how far the
                    \* run is explored, and whether the calls are recorded:
                    \* [results, faceFrames, noFaceRun, calls]
    \* pure-function harness
    fn, arg, ret,
    \* the application around the hook, and the backend
    app,            \* App: the state and refs of the tick interval effect
    tick,           \* backend: POST /mood/tick requests, the playlists they read and write
    call,           \* backend: one spotify() call
    oauth,          \* backend: stateStore, tokenStore and the /callback requests
    ensure          \* backend: playlistCache and the ensurePlaylistByName calls

hookVars == <<initPc, mpRef, lastPts, mood, scores, running, tracking, lastError,
              ready, faceCount, rafRef, missFramesRef, calibRef, emaRef, videoEl,
              readyState, dims, listeners, rafQueue, inflight>>
histVars == <<faceFrames, seenLo, seenHi, noFaceRun, faceRun, stopRequested, calls,
              session>>
pureVars == <<fn, arg, ret>>
sideVars == <<app, tick, call, oauth, ensure>>
restVars == <<pureVars, sideVars>>
vars == <<hookVars, histVars, pureVars, sideVars>>

\* bounds of the exploration
MaxInflight == 2
MaxRaf == 1
\* the lifecycle specification
MaxFaceFrames == 1
MaxNoFaceRun == 1
\* the frames specification
SessionFaceFrames == 2
SessionNoFaceRun == 11
\* the restart specification
RestartFaceFrames == 1
RestartNoFaceRun == 11
\* the calibration specification
CalibFaceFrames == 1
CalibNoFaceRun == 1
\* the resume specification
ResumeFaceFrames == 1
ResumeNoFaceRun == 1

\* the decay one miss early
MISS_LIMIT_Early == 10 - 1

\* the decay threshold off by one
MISS_LIMIT_Late == 10 + 1

\* missFramesRef.current > 10
MISS_LIMIT == 10
MIN_CAPTURE_LEN == 400

\* a face whose landmark list stops at index 99
FaceShort == Landmarks(100, 6000, 25, 55)

\* res.multiFaceLandmarks: no face, or one face
NoFace == <<>>
OneFace(f) == <<f>>

\* the application and the backend before anything has happened
AppStart == [linked |-> FALSE, cameraOn |-> FALSE, size |-> 25, intervalMs |-> 180000,
             perTick |-> 1, intervalRef |-> 0, timers |-> {}, inFlightRef |-> FALSE,
             requests |-> <<>>]
TickStart == [variant |-> "count", playlist |-> <<>>, seen |-> {}, pending |-> <<>>,
              served |-> 0, last |-> None]
CallStart == [n |-> 0, pc |-> "idle", access |-> FALSE, refresh |-> FALSE, expired |-> FALSE,
              token |-> "", fetches |-> 0, grants |-> 0, statuses |-> <<>>, result |-> NULL]
OauthStart == [stateStore |-> [x \in {} |-> ""],
               tokenStore |-> [access_token |-> 0, refresh_token |-> 0],
               pending |-> <<>>, logins |-> 0, callbacks |-> 0,
               issued |-> [x \in {"s1", "s2"} |-> 0], redeemed |-> [x \in {"s1", "s2"} |-> 0],
               last |-> None]
EnsureStart == [playlistCache |-> 0, userCache |-> 0, remote |-> <<>>, reqs |-> <<>>,
                creates |-> 0]

SideInit ==
    /\ app = AppStart
    /\ tick = TickStart
    /\ call = CallStart
    /\ oauth = OauthStart
    /\ ensure = EnsureStart

HookStart ==
    /\ session = [results |-> {NoFace, OneFace(FaceSmile), OneFace(FaceShort)},
                  faceFrames |-> MaxFaceFrames, noFaceRun |-> MaxNoFaceRun,
                  calls |-> FALSE]
    /\ initPc = "loading"
    /\ mpRef = NULL
    /\ lastPts = None
    /\ mood = "neutral"
    /\ scores = DefaultScores
    /\ running = FALSE
    /\ tracking = FALSE
    /\ lastError = NULL
    /\ ready = FALSE
    /\ faceCount = 0
    /\ rafRef = 0
    /\ missFramesRef = 0
    /\ calibRef = defaultCalib
    /\ emaRef = DefaultScores
    /\ videoEl = FALSE
    /\ readyState = 0
    /\ dims = FALSE
    /\ listeners = FALSE
    /\ rafQueue = {}
    /\ inflight = 0
    /\ faceFrames = 0
    /\ seenLo = DefaultScores
    /\ seenHi = DefaultScores
    /\ noFaceRun = 0
    /\ faceRun = 0
    /\ stopRequested = FALSE
    /\ calls = <<>>

HookInit == SideInit /\ HookStart

Init == HookInit /\ fn = NULL /\ arg = None /\ ret = None

\* the record of a call op of the API that takes the calibration to `after`
Called(op, after) ==
    calls' = IF ~session.calls THEN calls
             ELSE LET e == [op |-> op, before |-> calibRef, after |-> after]
                  IN  IF calls = <<>> THEN <<e>> ELSE <<calls[Len(calls)], e>>

(***************************************************************************)
(* Scheduling: requestAnimationFrame, kickOff, loop.                       *)
(***************************************************************************)
RafIds == 1 .. (MaxRaf + 1)

\* request ids are never reused in a browser; the only holders of an id are
\* the queue and rafRef.current, and every request overwrites rafRef.current,
\* so the least id that is not queued is as good as a new one
FreshId(q) == CHOOSE i \in RafIds : /\ \A cb \in q : cb.id # i
                                    /\ \A j \in RafIds : (j < i) => \E cb \in q : cb.id = j

\* rafRef.current = requestAnimationFrame(f), q the callbacks pending before it
requestAnimationFrame(q, f) ==
    /\ Cardinality(q) < MaxRaf
    /\ rafQueue' = q \cup {[id |-> FreshId(q), fn |-> f]}
    /\ rafRef' = FreshId(q)

\* the guard shared by kickOff and loop
Live(run) == run /\ videoEl /\ mpRef # NULL

Idle(q) == rafQueue' = q /\ UNCHANGED <<rafRef, inflight>>

\* loop(), up to the await of send()
loop(run, q) ==
    IF ~Live(run) THEN Idle(q)
    ELSE /\ inflight < MaxInflight
         /\ inflight' = inflight + 1
         /\ rafQueue' = q
         /\ UNCHANGED rafRef

\* kickOff that returns when the dimensions are zero, without polling
kickOff_GivesUp(run, q) ==
    IF ~Live(run) THEN Idle(q)
    ELSE IF ~dims THEN Idle(q)
         ELSE loop(run, q)

kickOff(run, q) ==
    IF ~Live(run) THEN Idle(q)
    ELSE IF ~dims
         THEN requestAnimationFrame(q, "kickOff") /\ UNCHANGED inflight
         ELSE loop(run, q)

\* the effect on [videoEl, running, mpRef.current], run after a render in
\* which running is r
RunningEffect(r) ==
    IF ~r \/ ~videoEl \/ mpRef = NULL
    THEN listeners' = FALSE /\ Idle(rafQueue)
    ELSE /\ listeners' = TRUE
         /\ IF readyState >= 2 THEN kickOff(r, rafQueue) ELSE Idle(rafQueue)

(***************************************************************************)
(* Detector construction (the mount effect).                               *)
(***************************************************************************)
InitDone ==
    /\ initPc = "loading"
    /\ initPc' = "done"
    /\ mpRef' = "fm"
    /\ ready' = TRUE
    /\ lastError' = NULL
    /\ UNCHANGED <<lastPts, mood, scores, running, tracking, faceCount, rafRef,
                   missFramesRef, calibRef, emaRef, videoEl, readyState, dims, listeners,
                   rafQueue, inflight>>
    /\ UNCHANGED <<histVars, restVars>>

InitFailed ==
    /\ initPc = "loading"
    /\ initPc' = "failed"
    /\ lastError' = "init failed"
    /\ ready' = FALSE
    /\ UNCHANGED <<mpRef, lastPts, mood, scores, running, tracking, faceCount, rafRef,
                   missFramesRef, calibRef, emaRef, videoEl, readyState, dims, listeners,
                   rafQueue, inflight>>
    /\ UNCHANGED <<histVars, restVars>>

(***************************************************************************)
(* The video element.                                                      *)
(***************************************************************************)
BindVideo ==
    /\ ~videoEl
    /\ videoEl' = TRUE
    /\ UNCHANGED <<initPc, mpRef, lastPts, mood, scores, running, tracking, lastError,
                   ready, faceCount, rafRef, missFramesRef, calibRef, emaRef,
                   readyState, dims, listeners, rafQueue, inflight>>
    /\ UNCHANGED <<histVars, restVars>>

\* 'loadedmetadata'.  A camera stream reports its dimensions once the
\* listeners of the event have run: the case kickOff polls for.
VideoLoadedMetadata ==
    /\ videoEl /\ readyState = 0
    /\ readyState' = 1
    /\ dims' = TRUE
    /\ IF listeners THEN kickOff(TRUE, rafQueue) ELSE Idle(rafQueue)
    /\ UNCHANGED <<initPc, mpRef, lastPts, mood, scores, running, tracking, lastError,
                   ready, faceCount, missFramesRef, calibRef, emaRef, videoEl, listeners>>
    /\ UNCHANGED <<histVars, restVars>>

\* 'loadeddata': no listener of the hook
VideoLoadedData ==
    /\ videoEl /\ readyState = 1
    /\ readyState' = 2
    /\ UNCHANGED dims
    /\ UNCHANGED <<initPc, mpRef, lastPts, mood, scores, running, tracking, lastError,
                   ready, faceCount, rafRef, missFramesRef, calibRef, emaRef, videoEl,
                   listeners, rafQueue, inflight>>
    /\ UNCHANGED <<histVars, restVars>>

\* 'canplay'
VideoCanPlay ==
    /\ videoEl /\ readyState = 2
    /\ readyState' = 3
    /\ UNCHANGED dims
    /\ IF listeners THEN kickOff(TRUE, rafQueue) ELSE Idle(rafQueue)
    /\ UNCHANGED <<initPc, mpRef, lastPts, mood, scores, running, tracking, lastError,
                   ready, faceCount, missFramesRef, calibRef, emaRef, videoEl, listeners>>
    /\ UNCHANGED <<histVars, restVars>>

\* 'resize': the stream reports its dimensions; no listener of the hook
VideoResized ==
    /\ videoEl /\ readyState >= 1 /\ ~dims
    /\ dims' = TRUE
    /\ UNCHANGED <<initPc, mpRef, lastPts, mood, scores, running, tracking, lastError,
                   ready, faceCount, rafRef, missFramesRef, calibRef, emaRef, videoEl,
                   readyState, listeners, rafQueue, inflight>>
    /\ UNCHANGED <<histVars, restVars>>

(***************************************************************************)
(* start and stop.                                                         *)
(***************************************************************************)
\* the guard of start() without the test of the video element
NotReady_DetectorOnly == mpRef = NULL

\* !videoEl || !mpRef.current
NotReady == ~videoEl \/ mpRef = NULL

start ==
    /\ stopRequested' = FALSE
    /\ IF NotReady
       THEN /\ lastError' = "detector/video not ready"
            /\ UNCHANGED <<running, missFramesRef, listeners, rafRef, rafQueue, inflight>>
       ELSE IF running
       THEN UNCHANGED <<lastError, running, missFramesRef, listeners, rafRef,
                        rafQueue, inflight>>
       ELSE /\ running' = TRUE
            /\ missFramesRef' = 0
            \* kickOff() of line 318 belongs to this render, where running is
            \* still false: it returns at its guard.  The render that follows
            \* runs the effect with running = true.
            /\ ~Live(running)
            /\ RunningEffect(TRUE)
            /\ UNCHANGED lastError
    /\ UNCHANGED <<initPc, mpRef, lastPts, mood, scores, tracking, ready, faceCount,
                   calibRef, emaRef, videoEl, readyState, dims>>
    /\ Called("start", calibRef)
    /\ UNCHANGED <<faceFrames, seenLo, seenHi, noFaceRun, faceRun, session>>
    /\ UNCHANGED restVars

\* stop() that also resets the smoothed vector and the label, as the stop()
\* of the three-point variant of the hook does
stop_Resets ==
    /\ running' = FALSE
    /\ tracking' = FALSE
    /\ rafQueue' = {cb \in rafQueue : cb.id # rafRef}
    /\ rafRef' = 0
    /\ listeners' = FALSE
    /\ stopRequested' = TRUE
    /\ scores' = DefaultScores
    /\ mood' = "neutral"
    /\ UNCHANGED <<initPc, mpRef, lastPts, lastError, ready, faceCount,
                   missFramesRef, calibRef, emaRef, videoEl, readyState, dims, inflight>>
    /\ Called("stop", calibRef)
    /\ UNCHANGED <<faceFrames, seenLo, seenHi, noFaceRun, faceRun, session>>
    /\ UNCHANGED restVars

\* stop() that also drops the calibration
stop_Forgets ==
    /\ running' = FALSE
    /\ tracking' = FALSE
    /\ rafQueue' = {cb \in rafQueue : cb.id # rafRef}
    /\ rafRef' = 0
    /\ listeners' = FALSE
    /\ stopRequested' = TRUE
    /\ calibRef' = defaultCalib
    /\ Called("stop", defaultCalib)
    /\ UNCHANGED <<initPc, mpRef, lastPts, mood, scores, lastError, ready, faceCount,
                   missFramesRef, emaRef, videoEl, readyState, dims, inflight>>
    /\ UNCHANGED <<faceFrames, seenLo, seenHi, noFaceRun, faceRun, session>>
    /\ UNCHANGED restVars

stop ==
    /\ running' = FALSE
    /\ tracking' = FALSE
    /\ rafQueue' = {cb \in rafQueue : cb.id # rafRef}
    /\ rafRef' = 0
    /\ listeners' = FALSE
    /\ stopRequested' = TRUE
    /\ UNCHANGED <<initPc, mpRef, lastPts, mood, scores, lastError, ready, faceCount,
                   missFramesRef, calibRef, emaRef, videoEl, readyState, dims, inflight>>
    /\ Called("stop", calibRef)
    /\ UNCHANGED <<faceFrames, seenLo, seenHi, noFaceRun, faceRun, session>>
    /\ UNCHANGED restVars

\* an animation frame: one pending callback runs.  Only a closure with
\* running = true ever gets past its guard to request a frame.
RafFire ==
    \E cb \in rafQueue :
        /\ IF cb.fn = "kickOff" THEN kickOff(TRUE, rafQueue \ {cb})
                                ELSE loop(TRUE, rafQueue \ {cb})
        /\ UNCHANGED <<initPc, mpRef, lastPts, mood, scores, running, tracking,
                       lastError, ready, faceCount, missFramesRef, calibRef, emaRef,
                       videoEl, readyState, dims, listeners>>
        /\ UNCHANGED <<histVars, restVars>>

(***************************************************************************)
(* Frame results.                                                          *)
(***************************************************************************)
\* faces.length > 0 && faces[0]?.length
Has(faces) == Len(faces) > 0 /\ faces[1].len > 0

Throws(faces) == Has(faces) /\ ~WellFormed(faces[1])

Lo(a, b) == Scores(Min(a.happy, b.happy), Min(a.neutral, b.neutral), Min(a.sad, b.sad))
Hi(a, b) == Scores(Max(a.happy, b.happy), Max(a.neutral, b.neutral), Max(a.sad, b.sad))

\* the callback registered with fm.onResults
onResults(faces) ==
    /\ faceCount' = Len(faces)
    /\ tracking' = Has(faces)
    /\ IF Has(faces)
       THEN LET pts == faces[1]
                m   == extractMetrics(pts)
            IN  /\ lastPts' = Some(pts)
                /\ IF ~WellFormed(pts)
                   THEN /\ faceRun' = 0
                        /\ UNCHANGED <<emaRef, scores, mood, missFramesRef,
                                       faceFrames, seenLo, seenHi, noFaceRun>>
                   ELSE LET raw      == toScores(m, calibRef)
                            smoothed == Ema(emaRef, raw)
                        IN  /\ faceFrames < session.faceFrames
                            /\ emaRef' = smoothed
                            /\ scores' = smoothed
                            /\ mood' = Label(smoothed)
                            /\ missFramesRef' = 0
                            /\ faceFrames' = faceFrames + 1
                            /\ faceRun' = faceRun + 1
                            /\ noFaceRun' = 0
                            /\ seenLo' = Lo(seenLo, raw)
                            /\ seenHi' = Hi(seenHi, raw)
       ELSE /\ noFaceRun < session.noFaceRun
            /\ missFramesRef' = missFramesRef + 1
            /\ noFaceRun' = noFaceRun + 1
            /\ faceRun' = 0
            /\ IF missFramesRef + 1 > MISS_LIMIT
               THEN /\ emaRef' = DefaultScores
                    /\ scores' = DefaultScores
                    /\ mood' = "neutral"
               ELSE UNCHANGED <<emaRef, scores, mood>>
            /\ UNCHANGED <<lastPts, faceFrames, seenLo, seenHi>>

\* the catch block without mpRef.current = null
LoopCatch_KeepsDetector ==
    /\ lastError' = "loop error"
    /\ running' = FALSE
    /\ listeners' = FALSE
    /\ UNCHANGED <<mpRef, rafRef, rafQueue>>

\* the catch block of loop(): close() settles within the same task
LoopCatch ==
    /\ lastError' = "loop error"
    /\ running' = FALSE
    /\ listeners' = FALSE
    /\ mpRef' = NULL
    /\ UNCHANGED <<rafRef, rafQueue>>

\* after the await: rafRef.current = requestAnimationFrame(loop)
LoopResume ==
    /\ requestAnimationFrame(rafQueue, "loop")
    /\ UNCHANGED <<lastError, running, listeners, mpRef>>

\* a send() settles after delivering its result.  An exception thrown by the
\* callback either rejects the send() or is swallowed by the detector.
SendSettlesWith(faces, rejected) ==
    /\ inflight > 0
    /\ inflight' = inflight - 1
    /\ onResults(faces)
    /\ rejected => Throws(faces)
    /\ IF rejected THEN LoopCatch ELSE LoopResume
    /\ UNCHANGED <<initPc, ready, calibRef, videoEl, readyState, dims>>
    /\ UNCHANGED <<stopRequested, calls, session, restVars>>

SendSettles ==
    \E faces \in session.results, rejected \in BOOLEAN :
        SendSettlesWith(faces, rejected)

\* a send() fails without a result
SendRejects ==
    /\ inflight > 0
    /\ inflight' = inflight - 1
    /\ LoopCatch
    /\ UNCHANGED <<initPc, lastPts, mood, scores, tracking, ready, faceCount,
                   missFramesRef, calibRef, emaRef, videoEl, readyState, dims>>
    /\ UNCHANGED <<histVars, restVars>>

(***************************************************************************)
(* Calibration.                                                            *)
(***************************************************************************)
Labels == {"happy", "neutral", "sad"}

\* (mpRef.current as any)?._lastPts
LastPts == IF mpRef = NULL THEN None ELSE lastPts

\* the baseline with the sign of the corner lift flipped
BaseOf_Flipped(m) == [eyeGap |-> m.eyeOpen, mouthOpen |-> m.mouthOpen,
                      smileUp |-> -m.smileUp, mouthWidth |-> m.mouthWidth]

\* the baseline recorded from the metrics m
BaseOf(m) == [eyeGap |-> m.eyeOpen, mouthOpen |-> m.mouthOpen,
              smileUp |-> m.smileUp, mouthWidth |-> m.mouthWidth]

\* the capture without the test of the label
Captured_AnyLabel(w) ==
    IF LastPts = None \/ LastPts[1].len < MIN_CAPTURE_LEN THEN calibRef
    ELSE [calibRef EXCEPT !.base = Some(BaseOf(extractMetrics(LastPts[1])))]

\* calibRef.current after captureCalibration(w)
Captured(w) ==
    IF w # "neutral" THEN calibRef
    ELSE IF LastPts = None \/ LastPts[1].len < MIN_CAPTURE_LEN THEN calibRef
    ELSE [calibRef EXCEPT !.base = Some(BaseOf(extractMetrics(LastPts[1])))]

CaptureOp(w) == [happy   |-> "captureCalibration('happy')",
                 neutral |-> "captureCalibration('neutral')",
                 sad     |-> "captureCalibration('sad')"][w]

captureCalibration(w) ==
    /\ calibRef' = Captured(w)
    /\ Called(CaptureOp(w), Captured(w))
    /\ UNCHANGED <<initPc, mpRef, lastPts, mood, scores, running, tracking, lastError,
                   ready, faceCount, rafRef, missFramesRef, emaRef, videoEl,
                   readyState, dims, listeners, rafQueue, inflight>>
    /\ UNCHANGED <<faceFrames, seenLo, seenHi, noFaceRun, faceRun, stopRequested, session>>
    /\ UNCHANGED restVars

CaptureCalibration == \E w \in Labels : captureCalibration(w)

\* a clear that resets the baseline and keeps the flag
clearCalibration_BaseOnly ==
    /\ calibRef' = [calibRef EXCEPT !.base = None]
    /\ Called("clearCalibration", [calibRef EXCEPT !.base = None])
    /\ UNCHANGED <<initPc, mpRef, lastPts, mood, scores, running, tracking, lastError,
                   ready, faceCount, rafRef, missFramesRef, emaRef, videoEl,
                   readyState, dims, listeners, rafQueue, inflight>>
    /\ UNCHANGED <<faceFrames, seenLo, seenHi, noFaceRun, faceRun, stopRequested, session>>
    /\ UNCHANGED restVars

clearCalibration ==
    /\ calibRef' = defaultCalib
    /\ Called("clearCalibration", defaultCalib)
    /\ UNCHANGED <<initPc, mpRef, lastPts, mood, scores, running, tracking, lastError,
                   ready, faceCount, rafRef, missFramesRef, emaRef, videoEl,
                   readyState, dims, listeners, rafQueue, inflight>>
    /\ UNCHANGED <<faceFrames, seenLo, seenHi, noFaceRun, faceRun, stopRequested, session>>
    /\ UNCHANGED restVars

\* the flag set instead of toggled
Toggled_Set(c) == [c EXCEPT !.swapNS = TRUE]

\* swapNS = !swapNS
Toggled(c) == [c EXCEPT !.swapNS = ~c.swapNS]

\* the three-point variant: { ...c, neutral: c.sad, sad: c.neutral }, on a
\* calibration [neutral, happy, sad] of optional feature snapshots
swapNeutralSad3(c) == [c EXCEPT !.neutral = c.sad, !.sad = c.neutral]

swapNeutralSad ==
    /\ calibRef' = Toggled(calibRef)
    /\ Called("swapNeutralSad", Toggled(calibRef))
    /\ UNCHANGED <<initPc, mpRef, lastPts, mood, scores, running, tracking, lastError,
                   ready, faceCount, rafRef, missFramesRef, emaRef, videoEl,
                   readyState, dims, listeners, rafQueue, inflight>>
    /\ UNCHANGED <<faceFrames, seenLo, seenHi, noFaceRun, faceRun, stopRequested, session>>
    /\ UNCHANGED restVars

Next ==
    \/ InitDone
    \/ InitFailed
    \/ BindVideo
    \/ VideoLoadedMetadata
    \/ VideoLoadedData
    \/ VideoCanPlay
    \/ start
    \/ stop
    \/ RafFire
    \/ SendSettles
    \/ SendRejects
    \/ CaptureCalibration
    \/ clearCalibration
    \/ swapNeutralSad

Spec == Init /\ [][Next]_vars

(***************************************************************************)
(* A running session: the detector is built, the video plays, start() has  *)
(* been called and the first frame is with the detector.                   *)
(***************************************************************************)
RunningState ==
    /\ SideInit
    /\ initPc = "done"
    /\ mpRef = "fm"
    /\ lastPts = None
    /\ mood = "neutral"
    /\ scores = DefaultScores
    /\ running = TRUE
    /\ tracking = FALSE
    /\ lastError = NULL
    /\ ready = TRUE
    /\ faceCount = 0
    /\ rafRef = 0
    /\ missFramesRef = 0
    /\ calibRef = defaultCalib
    /\ emaRef = DefaultScores
    /\ videoEl = TRUE
    /\ readyState = 3
    /\ dims = TRUE
    /\ listeners = TRUE
    /\ rafQueue = {}
    /\ inflight = 1
    /\ faceFrames = 0
    /\ seenLo = DefaultScores
    /\ seenHi = DefaultScores
    /\ noFaceRun = 0
    /\ faceRun = 0
    /\ stopRequested = FALSE
    /\ calls = <<>>
    /\ fn = NULL /\ arg = None /\ ret = None

\* The camera shows two expressions or nobody, long enough to see the decay,
\* while the user calibrates.
FramesInit ==
    /\ session = [results |-> {NoFace, OneFace(FaceSmile), OneFace(FaceSad)},
                  faceFrames |-> SessionFaceFrames, noFaceRun |-> SessionNoFaceRun,
                  calls |-> FALSE]
    /\ RunningState

NextFrames ==
    \/ RafFire
    \/ SendSettles
    \/ CaptureCalibration
    \/ clearCalibration
    \/ swapNeutralSad

SpecFrames == FramesInit /\ [][NextFrames]_vars

\* The user stops and restarts the session while the camera shows one
\* expression or nobody.
RestartInit ==
    /\ session = [results |-> {NoFace, OneFace(FaceSmile)},
                  faceFrames |-> RestartFaceFrames, noFaceRun |-> RestartNoFaceRun,
                  calls |-> FALSE]
    /\ RunningState

NextRestart ==
    \/ start
    \/ stop
    \/ RafFire
    \/ SendSettles

SpecRestart == RestartInit /\ [][NextRestart]_vars

(***************************************************************************)
(* The page is reloaded: the hook is mounted afresh and every useState and *)
(* useRef takes its initial value; the callbacks of the old page are gone. *)
(***************************************************************************)
Reload ==
    /\ initPc' = "loading"
    /\ mpRef' = NULL
    /\ lastPts' = None
    /\ mood' = "neutral"
    /\ scores' = DefaultScores
    /\ running' = FALSE
    /\ tracking' = FALSE
    /\ lastError' = NULL
    /\ ready' = FALSE
    /\ faceCount' = 0
    /\ rafRef' = 0
    /\ missFramesRef' = 0
    /\ calibRef' = defaultCalib
    /\ emaRef' = DefaultScores
    /\ videoEl' = FALSE
    /\ readyState' = 0
    /\ dims' = FALSE
    /\ listeners' = FALSE
    /\ rafQueue' = {}
    /\ inflight' = 0
    /\ faceFrames' = 0
    /\ seenLo' = DefaultScores
    /\ seenHi' = DefaultScores
    /\ noFaceRun' = 0
    /\ faceRun' = 0
    /\ stopRequested' = FALSE
    /\ calls' = <<>>
    /\ UNCHANGED <<session, restVars>>

\* The user calibrates and reloads while the camera shows one expression or
\* nobody; the calls are recorded.
CalibInit ==
    /\ session = [results |-> {NoFace, OneFace(FaceSmile)},
                  faceFrames |-> CalibFaceFrames, noFaceRun |-> CalibNoFaceRun,
                  calls |-> TRUE]
    /\ RunningState

NextCalib ==
    \/ RafFire
    \/ SendSettles
    \/ CaptureCalibration
    \/ clearCalibration
    \/ swapNeutralSad
    \/ Reload
    \/ InitDone

SpecCalib == CalibInit /\ [][NextCalib]_vars

\* The user calibrates, stops and restarts while the camera shows one
\* expression or nobody.
ResumeInit ==
    /\ session = [results |-> {NoFace, OneFace(FaceSmile)},
                  faceFrames |-> ResumeFaceFrames, noFaceRun |-> ResumeNoFaceRun,
                  calls |-> FALSE]
    /\ RunningState

NextResume ==
    \/ start
    \/ stop
    \/ RafFire
    \/ SendSettles
    \/ CaptureCalibration
    \/ clearCalibration
    \/ swapNeutralSad

SpecResume == ResumeInit /\ [][NextResume]_vars

\* The hook is mounted and start() and stop() are called before and after the
\* detector is built, the video element bound and its data loaded; a send()
\* may fail, and no result is delivered.
NextMount ==
    \/ InitDone
    \/ InitFailed
    \/ BindVideo
    \/ VideoLoadedMetadata
    \/ VideoLoadedData
    \/ VideoCanPlay
    \/ start
    \/ stop
    \/ RafFire
    \/ SendRejects

SpecMount == Init /\ [][NextMount]_vars

(***************************************************************************)
(* The detector is built and the video element is bound and playable, but  *)
(* the stream has not reported its dimensions yet; start() and stop() are  *)
(* called, the dimensions arrive, and a send() may fail.  The browser runs *)
(* every requested animation frame, and the stream reports its dimensions  *)
(* in the end.                                                             *)
(***************************************************************************)
KickFaceFrames == 1
KickNoFaceRun == 1

KickInit ==
    /\ session = [results |-> {NoFace, OneFace(FaceSmile)},
                  faceFrames |-> KickFaceFrames, noFaceRun |-> KickNoFaceRun,
                  calls |-> FALSE]
    /\ SideInit
    /\ initPc = "done"
    /\ mpRef = "fm"
    /\ lastPts = None
    /\ mood = "neutral"
    /\ scores = DefaultScores
    /\ running = FALSE
    /\ tracking = FALSE
    /\ lastError = NULL
    /\ ready = TRUE
    /\ faceCount = 0
    /\ rafRef = 0
    /\ missFramesRef = 0
    /\ calibRef = defaultCalib
    /\ emaRef = DefaultScores
    /\ videoEl = TRUE
    /\ readyState = 2
    /\ dims = FALSE
    /\ listeners = FALSE
    /\ rafQueue = {}
    /\ inflight = 0
    /\ faceFrames = 0
    /\ seenLo = DefaultScores
    /\ seenHi = DefaultScores
    /\ noFaceRun = 0
    /\ faceRun = 0
    /\ stopRequested = FALSE
    /\ calls = <<>>
    /\ fn = NULL /\ arg = None /\ ret = None

NextKick ==
    \/ start
    \/ stop
    \/ RafFire
    \/ VideoResized
    \/ VideoCanPlay
    \/ SendSettles
    \/ SendRejects

SpecKick == KickInit /\ [][NextKick]_vars

SpecKickFair == SpecKick /\ WF_vars(RafFire) /\ WF_vars(VideoResized)

(***************************************************************************)
(* The scorers and the label rule on their own: an input is drawn, the     *)
(* function is applied once.                                               *)
(***************************************************************************)
SmileUps   == {-5000000, -400, -100, 0, 30, 500, 5000000}
MouthOpens == {0, 100, 250, 400, 5000000}
EyeOpens   == {0, 450, 550, 5000000}

MetricsGrid ==
    {[mouthWidth |-> 4800, mouthOpen |-> mo, eyeOpen |-> eo, smileUp |-> su, scale |-> 2000] :
        mo \in MouthOpens, eo \in EyeOpens, su \in SmileUps}

CalibGrid ==
    {[base |-> b, swapNS |-> sw] :
        b \in {None, Some(BaseOf(extractMetrics(FaceNeutral))),
               Some(BaseOf(extractMetrics(FaceSmile))),
               Some([eyeGap |-> 5000000, mouthOpen |-> 5000000,
                     smileUp |-> -5000000, mouthWidth |-> 4800])},
        sw \in BOOLEAN}

Levels == {0, 2500, 3000, 3300, 3400, 3500, 3700, 5000, 10000}

VectorGrid == {v \in [happy : Levels, neutral : Levels, sad : Levels] :
                  v.happy + v.neutral + v.sad = ONE}

\* the eyes of f drawn together: both eye centres at the same point
EyesTogether(f) ==
    [f EXCEPT !.pt[33] = Pt(4500, 4000), !.pt[133] = Pt(5500, 4000),
              !.pt[362] = Pt(4500, 4000), !.pt[263] = Pt(5500, 4000)]

\* every landmark of f at one point
Collapsed(f) == [f EXCEPT !.pt = [i \in IdxSet |-> Pt(5000, 5000)]]

FaceGrid == {FaceNeutral, FaceSmile, FaceSad,
             EyesTogether(FaceNeutral), EyesTogether(FaceSmile), EyesTogether(FaceSad),
             Collapsed(FaceNeutral)}

PureInit ==
    /\ HookInit
    /\ ret = None
    /\ \/ fn \in {"toScores", "toScoresSoftmax"}
          /\ arg \in {Some([metrics |-> m, calib |-> c]) : m \in MetricsGrid, c \in CalibGrid}
       \/ fn = "Label" /\ arg \in {Some(v) : v \in VectorGrid}
       \/ fn = "extractMetrics" /\ arg \in {Some(f) : f \in FaceGrid}

ApplyToScores ==
    /\ fn = "toScores" /\ ret = None
    /\ ret' = Some(toScores(arg[1].metrics, arg[1].calib))
    /\ UNCHANGED <<hookVars, histVars, fn, arg, sideVars>>

ApplyToScoresSoftmax ==
    /\ fn = "toScoresSoftmax" /\ ret = None
    /\ ret' = Some(toScoresSoftmax(arg[1].metrics, arg[1].calib))
    /\ UNCHANGED <<hookVars, histVars, fn, arg, sideVars>>

ApplyLabel ==
    /\ fn = "Label" /\ ret = None
    /\ ret' = Some(Label(arg[1]))
    /\ UNCHANGED <<hookVars, histVars, fn, arg, sideVars>>

ApplyExtractMetrics ==
    /\ fn = "extractMetrics" /\ ret = None
    /\ ret' = Some(extractMetrics(arg[1]))
    /\ UNCHANGED <<hookVars, histVars, fn, arg, sideVars>>

NextPure == ApplyToScores \/ ApplyToScoresSoftmax \/ ApplyLabel \/ ApplyExtractMetrics

SpecPure == PureInit /\ [][NextPure]_vars


(***************************************************************************)
(* The App's automatic tick (App.tsx).  As in the hook, a render and its   *)
(* effects run in the step of the handler that set the state.  A timer is  *)
(* [id, keep, count]: the tick closure of the render that created it.      *)
(***************************************************************************)
MaxTimers == 2
MaxTickRequests == 2

Sizes == {10, 25}
PerTicks == {1, 2}
Intervals == {5000, 180000}

\* window.setInterval: the least id that no live timer holds
FreshTimer(ts) == CHOOSE i \in 1 .. (MaxTimers + 1) :
                      /\ \A t \in ts : t.id # i
                      /\ \A j \in 1 .. (MaxTimers + 1) : (j < i) => \E t \in ts : t.id = j

\* the effect that creates a timer without clearing the one before
TickEffect_NoCleanup(a) ==
    IF ~a.linked \/ ~a.cameraOn THEN [a EXCEPT !.intervalRef = 0]
    ELSE [a EXCEPT !.timers = a.timers \cup {[id |-> FreshTimer(a.timers),
                                              keep |-> a.size, count |-> a.perTick]},
                   !.intervalRef = FreshTimer(a.timers)]

\* the effect on [linked, cameraOn, intervalMs, perTick, size], with the
\* cleanup of the effect before it, after a render with the state a
TickEffect(a) ==
    LET cleared == {t \in a.timers : t.id # a.intervalRef}
    IN  IF ~a.linked \/ ~a.cameraOn
        THEN [a EXCEPT !.timers = cleared, !.intervalRef = 0]
        ELSE [a EXCEPT !.timers = cleared \cup {[id |-> FreshTimer(cleared),
                                                 keep |-> a.size, count |-> a.perTick]},
                       !.intervalRef = FreshTimer(cleared)]

AppStep(a) ==
    /\ Cardinality(a.timers) <= MaxTimers
    /\ app' = a
    /\ UNCHANGED <<hookVars, histVars, pureVars, tick, call, oauth, ensure>>

\* check(): GET /me settles and setLinked(r.ok) changes the state
CheckLinked ==
    \E ok \in BOOLEAN :
        /\ ok # app.linked
        /\ AppStep(TickEffect([app EXCEPT !.linked = ok]))

startCamera ==
    /\ ~app.cameraOn
    /\ AppStep(TickEffect([app EXCEPT !.cameraOn = TRUE]))

stopCamera ==
    /\ app.cameraOn
    /\ AppStep(TickEffect([app EXCEPT !.cameraOn = FALSE]))

setSize ==
    \E v \in Sizes : v # app.size /\ AppStep(TickEffect([app EXCEPT !.size = v]))

setPerTick ==
    \E v \in PerTicks : v # app.perTick /\ AppStep(TickEffect([app EXCEPT !.perTick = v]))

setIntervalMs ==
    \E v \in Intervals :
        v # app.intervalMs /\ AppStep(TickEffect([app EXCEPT !.intervalMs = v]))

\* the test of the in-flight flag left out
Busy_Never(a) == FALSE

\* if (inFlightRef.current) return
Busy(a) == a.inFlightRef

\* a timer fires: tick(), up to the await of fetch()
TimerFires ==
    \E t \in app.timers :
        /\ ~Busy(app)
        /\ Len(app.requests) < MaxTickRequests
        /\ AppStep([app EXCEPT !.inFlightRef = TRUE,
                               !.requests = Append(@, [keep |-> t.keep, count |-> t.count])])

\* the fetch() of a tick settles, with a response or an error: finally
TickSettles ==
    /\ app.requests # <<>>
    /\ AppStep([app EXCEPT !.inFlightRef = FALSE, !.requests = Tail(@)])

NextApp ==
    \/ CheckLinked
    \/ startCamera
    \/ stopCamera
    \/ setSize
    \/ setPerTick
    \/ setIntervalMs
    \/ TimerFires
    \/ TickSettles

SpecApp == Init /\ [][NextApp]_vars

(***************************************************************************)
(* The backend: POST /mood/tick.  tick.variant tells the two handlers      *)
(* apart: "count" adds up to count tracks per request, "seen" adds one and *)
(* keeps a set of the tracks it has used.  A request reads the source and  *)
(* the target playlist, decides, and then awaits the PUT that replaces the *)
(* target; the random order of the pool is any permutation.                *)
(***************************************************************************)
MaxTickHandlers == 2
MaxServed == 2

\* the tracks of the editorial playlists as the API lists them
SourceTracks == [happy |-> <<"a", "b", "a">>, sad |-> <<"c", "b">>, neutral |-> <<>>]

ALLOWED_MOODS == {"happy", "sad", "neutral"}
ALLOWED_MOODS_Seen == {"happy"}

BodyLabels == {"happy", "sad", "angry"}
BodyKeeps == {0, 1, 2}
BodyCounts == {0, 2, 9}

Range(q) == {q[i] : i \in 1 .. Len(q)}

\* Math.max(lo, Math.min(hi, Number(v || dflt)))
Clamp(lo, hi, v, dflt) == Max(lo, Min(hi, IF v = 0 THEN dflt ELSE v))

\* the list as it is, duplicates included
Dedupe_Keep(q) == q

\* uris.filter(u => seen.has(u) ? false : (seen.add(u), true))
Dedupe(q) ==
    LET F[i \in 0 .. Len(q)] ==
            IF i = 0 THEN <<>>
            ELSE IF q[i] \in Range(F[i - 1]) THEN F[i - 1] ELSE Append(F[i - 1], q[i])
    IN  F[Len(q)]

\* getTrackUrisFromPlaylist(sourceId, 800)
getTrackUrisFromPlaylist(label) == Dedupe(SourceTracks[label])

\* sourceUris.slice().sort(() => Math.random() - 0.5): some order of the list
Shuffles(q) == {[i \in 1 .. Len(q) |-> q[pi[i]]] : pi \in Permutations(1 .. Len(q))}

\* pool.find(u => !seen.has(u))
Find(pool, seen) ==
    IF \A i \in 1 .. Len(pool) : pool[i] \in seen THEN None
    ELSE Some(pool[CHOOSE i \in 1 .. Len(pool) :
                      /\ pool[i] \notin seen
                      /\ \A j \in 1 .. (i - 1) : pool[j] \in seen])

\* the pick not recorded as seen
Mark_Not(seen, choice) == seen

\* seen.add(choice)
Mark(seen, choice) == seen \cup {choice}

\* for (let i = 0; i < count; i++) { ... }
RECURSIVE PickLoop(_, _, _, _)
PickLoop(pool, seen, count, picks) ==
    IF count = 0 THEN picks
    ELSE LET choice == Find(pool, seen)
         IN  IF choice = None THEN picks
             ELSE PickLoop(pool, Mark(seen, choice[1]), count - 1, Append(picks, choice[1]))

\* next.slice(next.length - keep) when next.length > keep
LastN(q, n) == IF Len(q) > n THEN SubSeq(q, Len(q) - n + 1, Len(q)) ELSE q

Response(n, variant, status, keep, count, sourceUris, current, picks, reason, recycled, seen) ==
    [n |-> n, variant |-> variant, status |-> status, keep |-> keep, count |-> count,
     sourceUris |-> sourceUris, current |-> current, picks |-> picks,
     added |-> Len(picks), reason |-> reason, recycled |-> recycled, seen |-> seen]

TickStep(t) ==
    /\ tick' = t
    /\ UNCHANGED <<hookVars, histVars, pureVars, app, call, oauth, ensure>>

\* res.json(...) of a request that ends without a PUT
Respond_NoPicks(t, r) == [t EXCEPT !.served = @ + 1, !.last = Some(r)]

\* POST /mood/tick of the "count" handler, up to the await of the PUT
MoodTick(label, rawKeep, rawCount) ==
    LET keep  == Clamp(1, 100, rawKeep, 25)
        count == Clamp(1, 5, rawCount, 1)
    IN  /\ tick.variant = "count"
        /\ tick.served + Len(tick.pending) < MaxServed
        /\ Len(tick.pending) < MaxTickHandlers
        /\ IF label \notin ALLOWED_MOODS
           THEN TickStep(Respond_NoPicks(tick,
                    Response(tick.served + 1, "count", 400, keep, count, <<>>, tick.playlist,
                             <<>>, "unsupported mood", FALSE, {})))
           ELSE LET sourceUris == getTrackUrisFromPlaylist(label)
                    current    == tick.playlist
                IN  \E pool \in Shuffles(sourceUris) :
                        LET picks == PickLoop(pool, Range(current), count, <<>>)
                        IN  IF picks = <<>>
                            THEN TickStep(Respond_NoPicks(tick,
                                     Response(tick.served + 1, "count", 200, keep, count,
                                              sourceUris, current, <<>>, "no-picks", FALSE, {})))
                            ELSE TickStep([tick EXCEPT !.pending = Append(@,
                                     [keep |-> keep, count |-> count, sourceUris |-> sourceUris,
                                      current |-> current, picks |-> picks,
                                      next |-> LastN(current \o picks, keep),
                                      recycled |-> FALSE, seen |-> {}])])

PostMoodTick ==
    \E label \in BodyLabels, k \in BodyKeeps, c \in BodyCounts : MoodTick(label, k, c)

\* POST /mood/tick of the "seen" handler, up to the await of the PUT
MoodTickSeen(label, rawKeep) ==
    LET keep == Clamp(1, 100, rawKeep, 25)
    IN  /\ tick.variant = "seen"
        /\ tick.served + Len(tick.pending) < MaxServed
        /\ Len(tick.pending) < MaxTickHandlers
        /\ IF label \notin ALLOWED_MOODS_Seen
           THEN TickStep(Respond_NoPicks(tick,
                    Response(tick.served + 1, "seen", 400, keep, 1, <<>>, tick.playlist,
                             <<>>, "unsupported mood", FALSE, tick.seen)))
           ELSE LET sourceUris == getTrackUrisFromPlaylist(label)
                    current    == tick.playlist
                    seen       == tick.seen \cup Range(current)
                IN  IF sourceUris = <<>>
                    THEN TickStep(Respond_NoPicks(tick,
                             Response(tick.served + 1, "seen", 500, keep, 1, sourceUris,
                                      current, <<>>, "No tracks in source playlist",
                                      FALSE, tick.seen)))
                    ELSE \E pool \in Shuffles(sourceUris) :
                        LET found == Find(pool, seen)
                        IN  IF found # None
                            THEN TickStep([tick EXCEPT !.seen = seen, !.pending = Append(@,
                                     [keep |-> keep, count |-> 1, sourceUris |-> sourceUris,
                                      current |-> current, picks |-> found,
                                      next |-> LastN(current \o found, keep),
                                      recycled |-> FALSE, seen |-> seen])])
                            ELSE IF Cardinality(seen) >= Len(sourceUris)
                            THEN TickStep([tick EXCEPT !.seen = {}, !.pending = Append(@,
                                     [keep |-> keep, count |-> 1, sourceUris |-> sourceUris,
                                      current |-> current, picks |-> <<pool[1]>>,
                                      next |-> LastN(current \o <<pool[1]>>, keep),
                                      recycled |-> TRUE, seen |-> seen])])
                            ELSE TickStep(Respond_NoPicks([tick EXCEPT !.seen = seen],
                                     Response(tick.served + 1, "seen", 200, keep, 1, sourceUris,
                                              current, <<>>, "no-novel", FALSE, seen)))

PostMoodTickSeen ==
    \E label \in BodyLabels, k \in BodyKeeps : MoodTickSeen(label, k)

\* the PUT of the oldest pending request succeeds, and the handler answers
ReplaceSettles ==
    /\ tick.pending # <<>>
    /\ LET r == Head(tick.pending)
       IN  TickStep([tick EXCEPT
               !.pending = Tail(@),
               !.playlist = r.next,
               !.seen = IF tick.variant = "seen" THEN @ \cup Range(r.picks) ELSE @,
               !.served = @ + 1,
               !.last = Some(Response(tick.served + 1, tick.variant, 200, r.keep, r.count,
                                      r.sourceUris, r.current, r.picks, "", r.recycled,
                                      r.seen))])

\* the PUT fails: the catch block answers 500
ReplaceFails ==
    /\ tick.pending # <<>>
    /\ LET r == Head(tick.pending)
       IN  TickStep([tick EXCEPT
               !.pending = Tail(@),
               !.served = @ + 1,
               !.last = Some(Response(tick.served + 1, tick.variant, 500, r.keep, r.count,
                                      r.sourceUris, r.current, <<>>, "error", r.recycled,
                                      r.seen))])

\* an await before the decision throws (a read of the Web API fails): 500
ReadFails ==
    /\ tick.served + Len(tick.pending) < MaxServed
    /\ TickStep(Respond_NoPicks(tick,
           Response(tick.served + 1, tick.variant, 500, 0, 0, <<>>, tick.playlist, <<>>,
                    "error", FALSE, tick.seen)))

\* the target playlist at the start: empty, or filled by the user and by
\* earlier requests
StartPlaylists == {<<>>, <<"z", "a", "b">>}

TickServerInit ==
    /\ HookStart /\ fn = NULL /\ arg = None /\ ret = None
    /\ app = AppStart /\ call = CallStart /\ oauth = OauthStart /\ ensure = EnsureStart
    /\ tick \in {[TickStart EXCEPT !.variant = v, !.playlist = pl] :
                    v \in {"count", "seen"}, pl \in StartPlaylists}

NextTickServer ==
    \/ PostMoodTick
    \/ PostMoodTickSeen
    \/ ReplaceSettles
    \/ ReplaceFails
    \/ ReadFails

SpecTickServer == TickServerInit /\ [][NextTickServer]_vars

(***************************************************************************)
(* The backend: spotify(), one call of the Web API on behalf of a request. *)
(* call.pc is the await the call is at; fetches and grants count the       *)
(* upstream requests and the refresh_token grants the call has issued.     *)
(***************************************************************************)
MaxCalls == 2

\* Date.now() and the values of the x-expires-at header (0: header absent)
Now == 100
ExpiresAts == {0, 50, 150}

\* the statuses the Web API answers with
Statuses == {200, 401, 500}

CallStep(c) ==
    /\ call' = c
    /\ UNCHANGED <<hookVars, histVars, pureVars, app, tick, oauth, ensure>>

\* throw new Error(msg)
Throw(c, msg) == [c EXCEPT !.pc = "thrown", !.result = msg]

\* refreshWithSpotify(refresh) is called: the grant request goes out
Grant(c, pc) == [c EXCEPT !.pc = pc, !.grants = @ + 1]

\* doFetch(token) is called: the API request goes out
DoFetch(c, pc) == [c EXCEPT !.pc = pc, !.fetches = @ + 1]

\* a 401 is answered with a refresh and a retry as often as it comes
ShouldRetry_Again(c, status) == status = 401 /\ c.refresh

\* if (r.status === 401 && refresh), after the first doFetch only
ShouldRetry(c, status) == c.pc = "fetch1" /\ status = 401 /\ c.refresh

\* spotify(req, res, path) up to its first await
spotify(access, refresh, expiresAt) ==
    /\ call.pc \in {"idle", "returned", "thrown"}
    /\ call.n < MaxCalls
    /\ LET expired == expiresAt # 0 /\ Now >= expiresAt
           c == [CallStart EXCEPT !.n = call.n + 1, !.access = access, !.refresh = refresh,
                                  !.expired = expired,
                                  !.token = IF access THEN "access" ELSE ""]
       IN  IF ~access /\ ~refresh THEN CallStep(Throw(c, "Not authorized"))
           ELSE IF ~access \/ expired
                THEN IF ~refresh THEN CallStep(Throw(c, "Not authorized"))
                     ELSE CallStep(Grant(c, "refresh1"))
                ELSE CallStep(DoFetch(c, "fetch1"))

SpotifyCalled ==
    \E access \in BOOLEAN, refresh \in BOOLEAN, expiresAt \in ExpiresAts :
        spotify(access, refresh, expiresAt)

\* the grant answers 200: the token is replaced and the fetch goes out
GrantSettles ==
    /\ call.pc \in {"refresh1", "refresh2"}
    /\ CallStep(DoFetch([call EXCEPT !.token = "fresh"],
                        IF call.pc = "refresh1" THEN "fetch1" ELSE "fetch2"))

\* the grant answers !r.ok, or the request fails: refreshWithSpotify throws
GrantFails ==
    /\ call.pc \in {"refresh1", "refresh2"}
    /\ CallStep(Throw(call, "Refresh failed"))

\* the API answers
FetchSettles ==
    /\ call.pc \in {"fetch1", "fetch2"}
    /\ \E status \in Statuses :
        LET c == [call EXCEPT !.statuses = Append(@, status)]
        IN  IF ShouldRetry(call, status) THEN CallStep(Grant(c, "refresh2"))
            ELSE IF status = 200 THEN CallStep([c EXCEPT !.pc = "returned", !.result = "json"])
            ELSE CallStep(Throw(c, "failed"))

\* fetch() rejects
FetchRejects ==
    /\ call.pc \in {"fetch1", "fetch2"}
    /\ CallStep(Throw(call, "fetch failed"))

NextSpotify ==
    \/ SpotifyCalled
    \/ GrantSettles
    \/ GrantFails
    \/ FetchSettles
    \/ FetchRejects

SpecSpotify == Init /\ [][NextSpotify]_vars

(***************************************************************************)
(* The backend: GET /login and GET /callback.  oauth.stateStore maps the   *)
(* state values that are out to their return_to; a callback that passes    *)
(* the checks awaits the token exchange, so several can be pending.        *)
(* issued and redeemed count, per state value, the logins that set it and  *)
(* the callbacks that passed the check with it.                            *)
(***************************************************************************)
MaxLogins == 2
MaxCallbacks == 3

\* Math.random().toString(36).slice(2): any value, an earlier one included
LoginStates == {"s1", "s2"}
ReturnTos == {"http://localhost:5173", "http://127.0.0.1:5173"}

\* req.query of a callback: the code may be missing, the state may be any
QueryCodes == {"", "code"}
QueryStates == LoginStates \cup {"forged"}

OauthStep(o) ==
    /\ oauth' = o
    /\ UNCHANGED <<hookVars, histVars, pureVars, app, tick, call, ensure>>

\* stateStore.set(state, return_to)
MapSet(m, k, v) == [x \in (DOMAIN m) \cup {k} |-> IF x = k THEN v ELSE m[x]]

\* the entry stays in the map
MapDelete_Keep(m, k) == m

\* stateStore.delete(state)
MapDelete(m, k) == [x \in (DOMAIN m) \ {k} |-> m[x]]

\* GET /login
Login ==
    /\ oauth.logins < MaxLogins
    /\ \E state \in LoginStates, return_to \in ReturnTos :
        OauthStep([oauth EXCEPT
            !.logins = @ + 1,
            !.stateStore = MapSet(@, state, return_to),
            !.issued[state] = @ + 1,
            !.last = Some([op |-> "login", code |-> "", state |-> state, status |-> 302,
                           body |-> ""])])

\* GET /callback up to the await of the token exchange
Callback ==
    /\ oauth.callbacks < MaxCallbacks
    /\ \E code \in QueryCodes, state \in QueryStates :
        LET o == [oauth EXCEPT !.callbacks = @ + 1]
            answer(status, body) ==
                Some([op |-> "callback", code |-> code, state |-> state, status |-> status,
                      body |-> body])
        IN  IF code = "" THEN OauthStep([o EXCEPT !.last = answer(400, "Missing code")])
            ELSE IF state \notin DOMAIN oauth.stateStore
                 THEN OauthStep([o EXCEPT !.last = answer(400, "Invalid state")])
                 ELSE OauthStep([o EXCEPT
                          !.stateStore = MapDelete(@, state),
                          !.redeemed[state] = @ + 1,
                          !.pending = Append(@, [state |-> state,
                                                 return_to |-> oauth.stateStore[state]]),
                          !.last = answer(0, "")])

\* the token endpoint answers 200 to some pending exchange
ExchangeSettles ==
    \E i \in 1 .. Len(oauth.pending), withRefresh \in BOOLEAN :
        LET token == oauth.callbacks * 10 + i
        IN  OauthStep([oauth EXCEPT
                !.pending = SubSeq(@, 1, i - 1) \o SubSeq(@, i + 1, Len(@)),
                !.tokenStore = [access_token |-> token,
                                refresh_token |-> IF withRefresh THEN token ELSE @.refresh_token],
                !.last = Some([op |-> "exchange", code |-> "code",
                               state |-> oauth.pending[i].state, status |-> 302,
                               body |-> oauth.pending[i].return_to])])

\* the token endpoint answers !r.ok
ExchangeFails ==
    \E i \in 1 .. Len(oauth.pending) :
        OauthStep([oauth EXCEPT
            !.pending = SubSeq(@, 1, i - 1) \o SubSeq(@, i + 1, Len(@)),
            !.last = Some([op |-> "exchange", code |-> "code",
                           state |-> oauth.pending[i].state, status |-> 400,
                           body |-> "error"])])

NextOauth ==
    \/ Login
    \/ Callback
    \/ ExchangeSettles
    \/ ExchangeFails

SpecOauth == Init /\ [][NextOauth]_vars

(***************************************************************************)
(* The backend: ensurePlaylistByName, called by GET /playlist and POST     *)
(* /mood.  ensure.reqs[i] is the await request i is at; ensure.remote is   *)
(* the list of the user's playlists named 'MoodDJ' at the Web API, and     *)
(* ensure.creates counts the create requests sent.  Ids are numbers, 0 is  *)
(* null.                                                                   *)
(***************************************************************************)
MaxEnsureRequests == 3

EnsureStep(e) ==
    /\ ensure' = e
    /\ UNCHANGED <<hookVars, histVars, pureVars, app, tick, call, oauth>>

\* spotifyFetch(`/users/${userId}/playlists`, { method: 'POST', ... }) is called
SendCreate(e, i) == [e EXCEPT !.reqs[i] = "create", !.creates = @ + 1]

\* ensurePlaylistByName() up to the request of the first page of /me/playlists
EnsureCalled ==
    /\ Len(ensure.reqs) < MaxEnsureRequests
    /\ IF ensure.playlistCache # 0
       THEN EnsureStep([ensure EXCEPT !.reqs = Append(@, "done")])
       ELSE EnsureStep([ensure EXCEPT !.reqs = Append(@, "list")])

\* the list of playlists arrives
ListSettles ==
    \E i \in 1 .. Len(ensure.reqs) :
        /\ ensure.reqs[i] = "list"
        /\ IF ensure.remote # <<>>
           THEN EnsureStep([ensure EXCEPT !.playlistCache = ensure.remote[1],
                                          !.reqs[i] = "done"])
           ELSE IF ensure.userCache # 0
                THEN EnsureStep(SendCreate(ensure, i))
                ELSE EnsureStep([ensure EXCEPT !.reqs[i] = "me"])

\* getCurrentUserId(): /me arrives
MeSettles ==
    \E i \in 1 .. Len(ensure.reqs) :
        /\ ensure.reqs[i] = "me"
        /\ EnsureStep(SendCreate([ensure EXCEPT !.userCache = 1], i))

\* the create request is answered: the playlist exists, and is cached
CreateSettles ==
    \E i \in 1 .. Len(ensure.reqs) :
        /\ ensure.reqs[i] = "create"
        /\ LET id == Len(ensure.remote) + 1
           IN  EnsureStep([ensure EXCEPT !.remote = Append(@, id),
                                         !.playlistCache = id,
                                         !.reqs[i] = "done"])

\* an await of the function throws: the route answers 500
EnsureFails ==
    \E i \in 1 .. Len(ensure.reqs) :
        /\ ensure.reqs[i] \in {"list", "me", "create"}
        /\ EnsureStep([ensure EXCEPT !.reqs[i] = "failed"])

\* the server starts with empty caches; the playlist may exist from an
\* earlier run
EnsureInit ==
    /\ HookStart /\ fn = NULL /\ arg = None /\ ret = None
    /\ app = AppStart /\ tick = TickStart /\ call = CallStart /\ oauth = OauthStart
    /\ ensure \in {[EnsureStart EXCEPT !.remote = r] : r \in {<<>>, <<1>>}}

NextEnsure ==
    \/ EnsureCalled
    \/ ListSettles
    \/ MeSettles
    \/ CreateSettles
    \/ EnsureFails

SpecEnsure == EnsureInit /\ [][NextEnsure]_vars

(***************************************************************************)
(* Properties.                                                             *)
(***************************************************************************)
Sum(v) == v.happy + v.neutral + v.sad

InUnit(v) == /\ 0 <= v.happy /\ v.happy <= ONE
             /\ 0 <= v.neutral /\ v.neutral <= ONE
             /\ 0 <= v.sad /\ v.sad <= ONE

\* C1: for every feature vector and every calibration state (baseline null
\* or captured, swap flag either way) the vector returned by toScores, in
\* the ratio and in the softmax variant, has each component in [0,1] and
\* components that sum to 1 (to within the rounding of the three quotients).
C1_Normalized ==
    (fn \in {"toScores", "toScoresSoftmax"} /\ ret # None) =>
        /\ InUnit(ret[1])
        /\ Abs(Sum(ret[1]) - ONE) <= 1

\* a scorer was applied to an extreme feature vector under a captured
\* baseline with the swap flag set
C1_Witness ==
    /\ fn \in {"toScores", "toScoresSoftmax"} /\ ret # None
    /\ arg[1].calib.base # None /\ arg[1].calib.swapNS
    /\ arg[1].metrics.smileUp = 5000000

\* C2: after any sequence of face and no-face results the smoothed vector
\* (emaRef, and scores which exposes it) has each component in [0,1], sums
\* to 1 (to within the accumulated rounding of the EMA steps, at most 8
\* units), and each component lies between the least and the greatest value
\* of that component among the default and all raw vectors seen so far.
C2_Convex ==
    /\ scores = emaRef
    /\ InUnit(emaRef)
    /\ Abs(Sum(emaRef) - ONE) <= 8
    /\ seenLo.happy <= emaRef.happy /\ emaRef.happy <= seenHi.happy
    /\ seenLo.neutral <= emaRef.neutral /\ emaRef.neutral <= seenHi.neutral
    /\ seenLo.sad <= emaRef.sad /\ emaRef.sad <= seenHi.sad

\* two face frames have been smoothed in, under a captured baseline
C2_Witness ==
    /\ faceFrames >= 2
    /\ emaRef # DefaultScores
    /\ calibRef.base # None

\* C3 as stated: after 11 or more consecutive no-face results, with no face
\* result in between, the smoothed vector is exactly the default and the
\* label is neutral.
C3_DecayAfterRun ==
    (noFaceRun >= 11) =>
        emaRef = DefaultScores /\ scores = DefaultScores /\ mood = "neutral"

\* C3 amended: once the miss counter exceeds 10 (11 or more consecutive
\* no-face results with neither a face result nor a start() that restarts the
\* session in between) the smoothed vector is exactly the default and the
\* label is neutral, whatever they were before.
C3_DecayAfterMisses ==
    (missFramesRef >= 11) =>
        emaRef = DefaultScores /\ scores = DefaultScores /\ mood = "neutral"

\* a face was scored, then the counter ran past the limit
C3_Witness == faceFrames >= 1 /\ missFramesRef >= 11

\* C4: the label of a vector is happy if happy >= neutral and happy >= sad,
\* otherwise sad if sad >= neutral, otherwise neutral; so {0.34,0.33,0.33}
\* gives happy and {0.30,0.35,0.35} gives sad.
C4_LabelRule ==
    (fn = "Label" /\ ret # None) =>
        LET v == arg[1]
            happyWins == v.happy >= v.neutral /\ v.happy >= v.sad
        IN  /\ happyWins => ret[1] = "happy"
            /\ (~happyWins /\ v.sad >= v.neutral) => ret[1] = "sad"
            /\ (~happyWins /\ v.sad < v.neutral) => ret[1] = "neutral"
            /\ (v = Scores(3400, 3300, 3300)) => ret[1] = "happy"
            /\ (v = Scores(3000, 3500, 3500)) => ret[1] = "sad"

\* the label of the neutral/sad tie was computed
C4_Witness == fn = "Label" /\ ret = Some("sad") /\ arg = Some(Scores(3000, 3500, 3500))

\* C5: at most one send() is outstanding at any time.
C5_AtMostOneSend == inflight <= 1

\* C6: once stop() has been called, and until start() is called, no new
\* send() is started and no new animation frame is requested.
C6_NoWorkAfterStop ==
    [][(stopRequested /\ stopRequested') =>
          (inflight' <= inflight /\ rafQueue' \subseteq rafQueue)]_vars

\* C7: a send() that settles after stop() leaves the smoothed vector, the
\* label and the miss counter as they were.
C7_LateResultDiscarded ==
    [][(stopRequested /\ inflight' < inflight) =>
          UNCHANGED <<emaRef, scores, mood, missFramesRef>>]_vars

\* C8: a result whose landmark list is too short is handled like a no-face
\* result: the miss counter goes up by one, the smoothed vector is not
\* updated from it, and the pipeline keeps running with its detector.
C8_MalformedIsMiss ==
    [][(\E rejected \in BOOLEAN : SendSettlesWith(OneFace(FaceShort), rejected)) =>
          /\ missFramesRef' = missFramesRef + 1
          /\ emaRef' \in {emaRef, DefaultScores}
          /\ running' = running
          /\ mpRef' = mpRef]_vars

\* C9: captureCalibration('neutral') while the last result held no face
\* leaves the calibration as it was.
C9_CaptureNeedsFace ==
    [][(captureCalibration("neutral") /\ faceCount = 0 /\ ~tracking) =>
          calibRef' = calibRef]_vars

\* the least run of consecutive face frames a capture could ask for
MinStableFrames == 2

\* C10: captureCalibration('neutral') after fewer consecutive face frames
\* than the minimum run leaves the baseline as it was.
C10_CaptureNeedsRun ==
    [][(captureCalibration("neutral") /\ faceRun < MinStableFrames) =>
          calibRef'.base = calibRef.base]_vars

C12_ClearIdempotent ==
    \A i \in 1 .. Len(calls) :
        (calls[i].op = "clearCalibration") =>
            /\ calls[i].after = [base |-> None, swapNS |-> FALSE]
            /\ (i > 1 /\ calls[i - 1].op = "clearCalibration") =>
                  (calls[i].before = calls[i - 1].after /\ calls[i].after = calls[i - 1].after)

\* clearCalibration() was called twice in a row, the first time with a
\* baseline captured and the flag set
C12_Witness ==
    /\ Len(calls) = 2
    /\ calls[1].op = "clearCalibration" /\ calls[2].op = "clearCalibration"
    /\ calls[1].before.base # None /\ calls[1].before.swapNS
    /\ calibRef = [base |-> None, swapNS |-> FALSE]

\* the calibrations of the three-point variant over two snapshots
Calib3Grid == [neutral : {None, Some("f1"), Some("f2")},
               happy   : {None, Some("f1")},
               sad     : {None, Some("f1"), Some("f2")}]

\* C13: two swapNeutralSad() calls in a row restore the calibration that was
\* there before the first, so both scorers return for every feature vector
\* what they returned before; the swap of the three-point variant undoes
\* itself in the same way.
C13_SwapInvolution ==
    /\ (Len(calls) = 2 /\ calls[1].op = "swapNeutralSad" /\ calls[2].op = "swapNeutralSad") =>
          /\ calls[1].after # calls[1].before
          /\ calls[2].before = calls[1].after
          /\ calls[2].after = calls[1].before
          /\ \A m \in MetricsGrid :
                /\ toScores(m, calls[2].after) = toScores(m, calls[1].before)
                /\ toScoresSoftmax(m, calls[2].after) = toScoresSoftmax(m, calls[1].before)
    /\ \A c \in Calib3Grid : swapNeutralSad3(swapNeutralSad3(c)) = c

\* swapNeutralSad() was called twice in a row with a baseline captured
C13_Witness ==
    /\ Len(calls) = 2
    /\ calls[1].op = "swapNeutralSad" /\ calls[2].op = "swapNeutralSad"
    /\ calls[1].before.base # None
    /\ calibRef = calls[1].before

\* a score vector with its neutral and sad components exchanged
Exchange(v) == Scores(v.happy, v.sad, v.neutral)

\* equal to within one unit in each component (the three evidences are
\* summed in a different order when exchanged, so the doubles may differ in
\* the last place)
Close(v, w) == /\ Abs(v.happy - w.happy) <= 1
               /\ Abs(v.neutral - w.neutral) <= 1
               /\ Abs(v.sad - w.sad) <= 1

\* C14: for every feature vector and baseline, the vector a scorer returns
\* with the swap flag set is (to within the rounding of the normalisation)
\* the vector it returns with the flag clear, with neutral and sad exchanged
\* and happy as it was.
C14_SwapExchanges ==
    (fn \in {"toScores", "toScoresSoftmax"} /\ ret # None) =>
        LET m   == arg[1].metrics
            on  == [arg[1].calib EXCEPT !.swapNS = TRUE]
            off == [arg[1].calib EXCEPT !.swapNS = FALSE]
            unswapped == IF fn = "toScores" THEN toScores(m, off)
                                            ELSE toScoresSoftmax(m, off)
        IN  /\ Close(toScores(m, on), Exchange(toScores(m, off)))
            /\ Close(toScoresSoftmax(m, on), Exchange(toScoresSoftmax(m, off)))
            /\ Close(ret[1], IF arg[1].calib.swapNS THEN Exchange(unswapped)
                                                    ELSE unswapped)

\* the ratio scorer was applied with the flag set under a captured baseline,
\* to a vector whose neutral and sad evidence differ
C14_Witness ==
    /\ fn = "toScores" /\ ret # None
    /\ arg[1].calib.swapNS /\ arg[1].calib.base # None
    /\ ret[1].neutral # ret[1].sad

\* C15: within one mounting of the hook the calibration changes only in a
\* captureCalibration, clearCalibration or swapNeutralSad call: frame results,
\* animation frames, start() and stop() leave it as it was, so a stop()
\* followed by a start() resumes with the calibration it had.
C15_OnlyCalibrationCalls ==
    [][(calibRef' # calibRef) =>
          (CaptureCalibration \/ clearCalibration \/ swapNeutralSad \/ Reload)]_vars

\* the session was stopped and started again in a run of no-face results
\* (only start() puts the miss counter below the length of the run), and it
\* runs with a baseline captured and the flag set
C15_Witness ==
    /\ running /\ ~stopRequested
    /\ missFramesRef < noFaceRun
    /\ calibRef.base # None /\ calibRef.swapNS

\* C16: start() called while the detector instance is absent or no video
\* element is bound leaves running false, starts no send() and requests no
\* animation frame, and sets lastError to 'detector/video not ready'.
C16_StartNotReady ==
    [][(start /\ (~videoEl \/ mpRef = NULL)) =>
          /\ ~running /\ ~running'
          /\ inflight' = inflight
          /\ rafQueue' = rafQueue
          /\ lastError' = "detector/video not ready"]_vars

\* start() was refused with the detector built and no video element bound
C16_Witness ==
    /\ lastError = "detector/video not ready"
    /\ mpRef # NULL /\ ~videoEl
    /\ ~running /\ inflight = 0 /\ rafQueue = {}

\* C17: no component of a vector returned by the ratio scorer is exactly 0
\* or exactly 1.
C17_NoSaturation ==
    (fn = "toScores" /\ ret # None) =>
        /\ ret[1].happy \notin {0, ONE}
        /\ ret[1].neutral \notin {0, ONE}
        /\ ret[1].sad \notin {0, ONE}

\* C18: after captureCalibration('neutral') recorded a new baseline from the
\* cached face F, the raw neutral evidence for F is greater than the raw
\* happy and the raw sad evidence; and a frame with a face whose metrics are
\* the baseline is smoothed in with a raw vector whose neutral component
\* (sad, when the flag exchanges them) is the greatest.
C18_NeutralAfterCapture ==
    [][/\ (/\ inflight' = inflight /\ rafQueue' = rafQueue
           /\ calibRef'.base # calibRef.base /\ calibRef'.swapNS = calibRef.swapNS
           /\ LastPts # None /\ LastPts[1].len >= MIN_CAPTURE_LEN
           /\ captureCalibration("neutral")) =>
              LET e == RawEvidence(extractMetrics(LastPts[1]),
                                   [calibRef' EXCEPT !.swapNS = FALSE])
              IN  e.neutral > e.happy /\ e.neutral > e.sad
       /\ \A faces \in session.results :
             (/\ inflight' = inflight - 1 /\ calibRef.base # None
              /\ Has(faces) /\ WellFormed(faces[1])
              /\ calibRef.base = Some(BaseOf(extractMetrics(faces[1])))
              /\ SendSettlesWith(faces, FALSE)) =>
                 LET raw == toScores(extractMetrics(faces[1]), calibRef)
                     top == IF calibRef.swapNS THEN raw.sad ELSE raw.neutral
                     low == IF calibRef.swapNS THEN raw.neutral ELSE raw.sad
                 IN  /\ top > raw.happy /\ top > low
                     /\ emaRef' = Ema(emaRef, raw)]_vars

\* a smile was scored without a baseline, captured as the baseline, and
\* scored again
C18_Witness ==
    LET m == extractMetrics(FaceSmile)
        c == [base |-> Some(BaseOf(m)), swapNS |-> FALSE]
    IN  /\ faceFrames = 2
        /\ calibRef = c
        /\ lastPts = Some(FaceSmile)
        /\ emaRef = Ema(Ema(DefaultScores, toScores(m, defaultCalib)), toScores(m, c))

\* C19: the calibration is after a reload of the page what it was before it.
C19_SurvivesReload ==
    [][Reload => calibRef' = calibRef]_vars

\* a corner lift of 0.03 or more above the default baseline's smileUp
SubstantialLift == 3 * (ONE \div 100)
\* a mouth opening above the default baseline's by at most 0.02
SlightOpen == 2 * (ONE \div 100)

Smiling(m) ==
    /\ m.smileUp - DefaultBase.smileUp >= SubstantialLift
    /\ m.mouthOpen > DefaultBase.mouthOpen
    /\ m.mouthOpen <= DefaultBase.mouthOpen + SlightOpen

\* C20: from the uniform default smoothed vector and with no baseline, one
\* frame with a face whose corner lift is substantially above 0 and whose
\* mouth opening is slightly above 0.025 leaves a smoothed vector with
\* happy > neutral and happy > sad, and the label happy.
C20_SmileWins ==
    [][\A faces \in session.results :
          (/\ inflight' = inflight - 1
           /\ emaRef = DefaultScores /\ calibRef.base = None
           /\ Has(faces) /\ WellFormed(faces[1])
           /\ Smiling(extractMetrics(faces[1]))
           /\ SendSettlesWith(faces, FALSE)) =>
              /\ emaRef'.happy > emaRef'.neutral
              /\ emaRef'.happy > emaRef'.sad
              /\ scores' = emaRef'
              /\ mood' = "happy"]_vars

\* the first frame of the session was a smile, scored without a baseline
C20_Witness ==
    /\ faceFrames = 1
    /\ calibRef = defaultCalib
    /\ Smiling(extractMetrics(FaceSmile))
    /\ emaRef = Ema(DefaultScores, toScores(extractMetrics(FaceSmile), defaultCalib))
    /\ mood = "happy"

\* C21: on every frame result that contains a face each component of the
\* smoothed vector becomes prev + 0.2 * (raw - prev), where raw is toScores
\* of that frame under the calibration of that moment; the exposed scores
\* are the smoothed vector and the miss counter is reset to 0.
C21_FaceFrameSmooths ==
    [][\A faces \in session.results :
          (inflight' = inflight - 1 /\ Has(faces) /\ SendSettlesWith(faces, FALSE)) =>
              LET raw == toScores(extractMetrics(faces[1]), calibRef)
              IN  /\ emaRef'.happy = emaRef.happy + RDiv(2 * (raw.happy - emaRef.happy), 10)
                  /\ emaRef'.neutral =
                         emaRef.neutral + RDiv(2 * (raw.neutral - emaRef.neutral), 10)
                  /\ emaRef'.sad = emaRef.sad + RDiv(2 * (raw.sad - emaRef.sad), 10)
                  /\ scores' = emaRef'
                  /\ missFramesRef' = 0]_vars

\* a face frame was smoothed in under a swapped calibration, after an
\* earlier face frame
C21_Witness ==
    /\ tracking /\ faceRun >= 1 /\ faceFrames >= 2
    /\ missFramesRef = 0
    /\ calibRef.swapNS
    /\ emaRef # DefaultScores

\* C22: each no-face frame result increments the miss counter by exactly
\* one, and as long as the counter is at most 10 the smoothed vector, the
\* exposed scores and the label are left as they were.
C22_MissHolds ==
    [][(inflight' = inflight - 1 /\ faceCount' = 0 /\ SendSettlesWith(NoFace, FALSE)) =>
          /\ missFramesRef' = missFramesRef + 1
          /\ (missFramesRef' <= 10) => UNCHANGED <<emaRef, scores, mood>>]_vars

\* a happy mood is still held after ten consecutive missed frames
C22_Witness ==
    /\ missFramesRef = 10 /\ noFaceRun = 10
    /\ mood = "happy"
    /\ emaRef # DefaultScores

\* C23: in every reachable state (initially, after a face or a no-face
\* result, after the decay, after start() or stop()) the exposed mood is the
\* label that the rule (happy if happy >= neutral and happy >= sad, else sad
\* if sad >= neutral, else neutral) gives for the exposed scores.
C23_MoodIsLabel ==
    mood = IF scores.happy >= scores.neutral /\ scores.happy >= scores.sad THEN "happy"
           ELSE IF scores.sad >= scores.neutral THEN "sad"
           ELSE "neutral"

\* a happy mood is exposed after stop(), and the session was restarted
\* before: the label has followed the scores through the calls
C23_Witness ==
    /\ mood = "happy" /\ scores # DefaultScores
    /\ stopRequested /\ ~running

\* C24: the smoothed vector, the exposed scores and the label are written
\* only by the processing of a frame result: start(), stop(),
\* captureCalibration, clearCalibration and swapNeutralSad leave them as
\* they were.
C24_OnlyFramesWrite ==
    [][/\ (emaRef' # emaRef \/ scores' # scores \/ mood' # mood) =>
              (inflight' = inflight - 1 /\ SendSettles)
       /\ (inflight' >= inflight /\ calls' = calls /\
              (start \/ stop \/ CaptureCalibration \/ clearCalibration \/ swapNeutralSad)) =>
              UNCHANGED <<emaRef, scores, mood>>]_vars

\* a scored vector is exposed after stop(), under a calibration that was
\* captured and swapped
C24_Witness ==
    /\ scores # DefaultScores /\ emaRef = scores
    /\ stopRequested
    /\ calibRef.base # None /\ calibRef.swapNS

\* C25: if start() is called when the detector is ready and a video element
\* is bound and playable (readyState >= 2), then, provided the video reports
\* non-zero dimensions in the end and stop() is not called, a frame is
\* eventually sent to the detector; while the dimensions are zero nothing is
\* with the detector and, as long as the hook is running, a kickOff callback
\* is pending that polls for them.
C25_FrameEventuallySent ==
    /\ (running /\ ~stopRequested /\ readyState >= 2) ~> (inflight > 0 \/ stopRequested)
    /\ [](~dims => /\ inflight = 0
                   /\ running => \E cb \in rafQueue : cb.fn = "kickOff")

\* start() was called before the dimensions were known, and the first frame
\* is now with the detector
C25_Witness ==
    /\ running /\ ~stopRequested
    /\ dims /\ readyState = 2
    /\ inflight = 1 /\ rafQueue = {}
    /\ faceFrames = 0 /\ noFaceRun = 0 /\ lastError = NULL

C27_ReadyHasDetector == ready => mpRef # NULL

\* C28: in every reachable state, tracking implies running.
C28_TrackingImpliesRunning == tracking => running

\* C29: when the distance between the two eye centres is zero,
\* extractMetrics takes 1.0 as the scale, so that every feature it returns
\* is finite (the features are the plain distances), for every landmark set
\* that holds all the indices it reads.
C29_ZeroEyeDistance ==
    (fn = "extractMetrics" /\ ret # None) =>
        LET pts  == arg[1]
            dist == d(avg2(p(pts, 33), p(pts, 133)), avg2(p(pts, 263), p(pts, 362)))
            m    == ret[1]
        IN  (WellFormed(pts) /\ dist = 0) =>
                /\ m.scale = ONE
                /\ Finite(m.mouthWidth) /\ Finite(m.mouthOpen)
                /\ Finite(m.eyeOpen) /\ Finite(m.smileUp)
                /\ m.mouthWidth = d(p(pts, 61), p(pts, 291))
                /\ m.mouthOpen = d(p(pts, 13), p(pts, 14))

\* the metrics of a face whose eye centres coincide and whose mouth is open
C29_Witness ==
    /\ fn = "extractMetrics" /\ ret # None
    /\ arg = Some(EyesTogether(FaceSmile))
    /\ ret[1].scale = ONE /\ ret[1].mouthOpen > 0

\* C30: in the softmax variant of toScores the neutral component of the
\* returned vector is never below the floor of 0.1, for every feature
\* vector and every calibration.
C30_NeutralFloor ==
    (fn = "toScoresSoftmax" /\ ret # None) => ret[1].neutral >= ONE \div 10

\* the softmax scorer was applied to a face far from the baseline, where the
\* neutral evidence is at its least
C30_Witness ==
    /\ fn = "toScoresSoftmax" /\ ret # None
    /\ arg[1].metrics.smileUp = 5000000 /\ arg[1].metrics.mouthOpen = 5000000
    /\ ~arg[1].calib.swapNS
    /\ ret[1].neutral < ret[1].happy /\ ret[1].neutral < ret[1].sad

\* C31: at most one automatic POST /mood/tick is outstanding at any time:
\* the in-flight flag is set exactly while one is outstanding, a timer that
\* fires while it is set sends nothing, and the flag is cleared when the
\* request settles, whether it succeeded or failed.
C31_OneTickInFlight ==
    /\ [](Len(app.requests) <= 1)
    /\ [](app.inFlightRef <=> Len(app.requests) = 1)
    /\ [][app.inFlightRef => Len(app'.requests) <= Len(app.requests)]_vars

\* a tick of an earlier timer is outstanding while a timer with other
\* settings is live
C31_Witness ==
    /\ app.inFlightRef /\ Len(app.requests) = 1
    /\ \E t \in app.timers : t.keep # app.requests[1].keep

Answers(variant, status) ==
    /\ tick'.served = tick.served + 1
    /\ tick'.last # None
    /\ tick'.last[1].variant = variant
    /\ tick'.last[1].status = status

\* C33: after every successful POST /mood/tick, the target playlist holds at
\* most keep tracks and is the last keep entries of the playlist the request
\* read followed by the tracks it picked.
C33_TrimmedToKeep ==
    [][\A v \in {"count", "seen"} :
         Answers(v, 200) =>
            /\ Len(tick'.playlist) <= tick'.last[1].keep
            /\ tick'.playlist = LastN(tick'.last[1].current \o tick'.last[1].picks,
                                      tick'.last[1].keep)]_vars

\* the requests a handler has decided: the pending ones and the last answered
Decided(variant) ==
    {tick.pending[i] : i \in 1 .. Len(tick.pending)}
        \cup (IF tick.last # None /\ tick.last[1].status = 200
              THEN {[keep |-> tick.last[1].keep, count |-> tick.last[1].count,
                     sourceUris |-> tick.last[1].sourceUris,
                     current |-> tick.last[1].current, picks |-> tick.last[1].picks,
                     next |-> tick.playlist, recycled |-> tick.last[1].recycled,
                     seen |-> tick.last[1].seen]}
              ELSE {})

\* C34: every track that the "count" handler of POST /mood/tick adds is new:
\* each pick is a track of the source playlist of the requested mood, was not
\* in the target playlist the request read, the picks of one request are
\* pairwise distinct, and there are at most count of them, count in 1 .. 5.
C34_PicksAreNew ==
    tick.variant = "count" =>
        \A r \in Decided("count") :
            /\ r.count \in 1 .. 5
            /\ Len(r.picks) <= r.count
            /\ \A i \in 1 .. Len(r.picks) :
                  /\ r.picks[i] \in Range(r.sourceUris)
                  /\ \E l \in ALLOWED_MOODS : Range(r.sourceUris) = Range(SourceTracks[l])
                  /\ r.picks[i] \notin Range(r.current)
                  /\ \A j \in 1 .. Len(r.picks) : i # j => r.picks[i] # r.picks[j]

C34_Witness ==
    /\ tick.variant = "count"
    /\ tick.last # None
    /\ tick.last[1].status = 200
    /\ tick.last[1].count = 2
    /\ Len(tick.last[1].picks) = 2
    /\ tick.last[1].current # <<>>

\* C38: in the "seen" handler of POST /mood/tick, a request that finds no
\* unseen source track has every source track in the seen set, takes the
\* recycle branch, and never answers 'no-novel'.
C38_RecycleNotNoNovel ==
    tick.variant = "seen" =>
        /\ tick.last # None => tick.last[1].reason # "no-novel"
        /\ \A r \in Decided("seen") :
              r.recycled => /\ Range(r.sourceUris) \subseteq r.seen
                            /\ Len(r.picks) = 1
                            /\ r.picks[1] \in Range(r.sourceUris)

C38_Witness ==
    /\ tick.variant = "seen"
    /\ tick.last # None
    /\ tick.last[1].status = 200
    /\ tick.last[1].recycled
    /\ tick.seen = Range(tick.last[1].picks)

\* C35: one spotify() call retries at most once: it issues at most two API
\* requests and at most two refresh grants, a 401 on the retried request ends
\* the call with an error, and a call with neither an access token nor a
\* refresh token throws 'Not authorized' without any upstream request.
C35_AtMostOneRetry ==
    /\ [](call.fetches <= 2 /\ call.grants <= 2)
    /\ [](Len(call.statuses) = 2 /\ call.statuses[2] = 401
             => call.pc = "thrown" /\ call.result = "failed")
    /\ []((call.n > 0 /\ ~call.access /\ ~call.refresh)
             => /\ call.pc = "thrown" /\ call.result = "Not authorized"
                /\ call.fetches = 0 /\ call.grants = 0)
    /\ [][call.pc = "fetch2" /\ call'.n = call.n
             => /\ call'.pc \in {"returned", "thrown"}
                /\ call'.fetches = call.fetches
                /\ call'.grants = call.grants]_vars

C35_Witness ==
    /\ call.pc = "thrown"
    /\ call.statuses = <<401, 401>>
    /\ call.fetches = 2
    /\ call.grants = 2

\* the step is a GET /callback
IsCallback == oauth'.callbacks = oauth.callbacks + 1

\* C36: GET /callback accepts a state value only if an earlier GET /login
\* issued it and no callback has redeemed it since: a state is redeemed at
\* most once per login that issued it, the accepted state leaves the store
\* in the same step, and a callback with an unknown or used state is answered
\* 400 and leaves tokenStore unchanged.
C36_StateRedeemedOnce ==
    /\ [](\A s \in LoginStates : oauth.redeemed[s] <= oauth.issued[s])
    /\ [][(IsCallback /\ oauth'.last[1].status = 0)
             => /\ oauth'.last[1].state \in DOMAIN oauth.stateStore
                /\ oauth'.last[1].state \notin DOMAIN oauth'.stateStore
                /\ oauth.issued[oauth'.last[1].state] > oauth.redeemed[oauth'.last[1].state]]_vars
    /\ [][(IsCallback /\ oauth'.last[1].code # ""
                      /\ oauth'.last[1].state \notin DOMAIN oauth.stateStore)
             => /\ oauth'.last[1].status = 400
                /\ oauth'.tokenStore = oauth.tokenStore
                /\ oauth'.pending = oauth.pending
                /\ oauth'.stateStore = oauth.stateStore]_vars

C36_Witness ==
    /\ oauth.last # None
    /\ oauth.last[1].op = "callback"
    /\ oauth.last[1].status = 400
    /\ oauth.last[1].body = "Invalid state"
    /\ oauth.last[1].state \in LoginStates
    /\ oauth.redeemed[oauth.last[1].state] = 1
    /\ oauth.tokenStore.access_token # 0

\* C37: over every interleaving of the requests that call
\* ensurePlaylistByName, the 'MoodDJ' playlist is created at most once: no
\* create request is sent once playlistCache.id is set or a playlist of that
\* name exists remotely.
C37_CreatedAtMostOnce ==
    /\ [](ensure.creates <= 1)
    /\ [](Len(ensure.remote) <= 1)
    /\ [][ensure'.creates > ensure.creates
             => ensure.playlistCache = 0 /\ ensure.remote = <<>>]_vars
====
